---- MODULE Spec2Model ----
(***************************************************************************)
(* HQ-Trivia game session (hqtrivia/gamesession.py) together with the      *)
(* Player connection handle (hqtrivia/player.py) and the question source   *)
(* (hqtrivia/question.py).                                                 *)
(*                                                                         *)
(* Every GameSession is a record of the sequence games; its run() is       *)
(* modelled step by step.  Every await of the code is a step: the question *)
(* fetch (the round number is incremented before it, the question arrives  *)
(* or the fetch raises after it), each per-player send and receive of the  *)
(* asyncio.gather fan-outs, the join of each gather, and the winner        *)
(* announcement, after which set_result and the removal of the winner      *)
(* are a step of their own.                                                *)
(*                                                                         *)
(* Environment.  websocket.send either succeeds or raises ConnectionClosed *)
(* (swallowed by Player.send_json_rpc_request); websocket.recv delivers a  *)
(* client message, raises ConnectionClosed, or stays silent until          *)
(* asyncio.wait_for times out; Question.generate returns a question or     *)
(* raises.  The result of a client's response is any JSON value: a choice, *)
(* another string, or an array or object, which Python cannot hash.  This  *)
(* is specification Spec; SpecWaited is Spec on sessions whose players     *)
(* were sent the waiting announcement before the session was created.      *)
(*                                                                         *)
(* A websocket call raises nothing else unless the program itself misuses  *)
(* it (player.py:149-151 and 170-171 name TypeError and RuntimeError and   *)
(* let them propagate).  The specifications SpecRoundFault and SpecFault   *)
(* add such exceptions, as the unit tests do with mocked players: in the   *)
(* per-player round interaction only, and in every websocket call.         *)
(* SpecStall adds sends of the round interaction that never complete, and  *)
(* SpecDirect a session constructed directly on an empty list.             *)
(* In all of these a client sends one message per question.  SpecEager     *)
(* adds clients whose messages are buffered by the websocket, MaxEarly of  *)
(* them in all: sent when no recv is pending, or not taken before the      *)
(* timeout of the pending one.                                             *)
(*                                                                         *)
(* SpecManager is the GameManager (hqtrivia/gamemanager.py) with the       *)
(* sessions it creates: connections are offered, wait for a quorum, and    *)
(* the handler that completes a quorum runs the new session, all rounds of *)
(* which interleave with the other handlers and sessions.  Connections are *)
(* numbered in the order the server accepts them.  The environment is that *)
(* of Spec for the clients of kind "any"; a "plain" client keeps its       *)
(* connection open and answers with a choice or not at all.  The server is *)
(* followed with AnyConns connections of kind "any", and with MaxConns     *)
(* connections of which AnyClients are of kind "any"; a session that a     *)
(* handler runs is followed for ManagerRounds rounds.                      *)
(***************************************************************************)
EXTENDS Integers, Sequences, FiniteSets

\* ------------------------------------------------------------------ bounds
NumPlayers == 3     \* largest number of players a session is created with
MaxRounds == 2      \* rounds after which no further round is started
MaxFaults == 1      \* exceptions other than ConnectionClosed raised by a websocket
MaxConns == 4       \* websocket connections the server accepts
ManagerRounds == 1  \* rounds of a session that a connection handler runs
AnyConns == 3       \* connections accepted when no client is a plain one
AnyClients == 1     \* clients that are not plain ones among MaxConns connections
MaxEarly == 2       \* client messages that no pending recv takes at once
MaxInbox == 2       \* client messages a websocket buffers before recv is called
EagerPlayers == 2   \* players of a session whose clients send unasked responses

\* hqtrivia/config.py
CONFIG_PLAYERS_PER_GAME == 2

\* ------------------------------------------------------------ program data
P == 1..NumPlayers

\* the websocket connections, each wrapped in one Player by
\* GameManager.handle_new_websocket
Conns == 1..MaxConns

\* Python's None (the absent answer)
None == "None"

\* hqtrivia/messages.py
WAITING_FOR_PLAYERS == "Please be patient. Waiting for players to join."
GAME_ROUND_STARTING == "Game round starting."
NETWORK_ERROR_OCCURRED == "Network error encountered. Please try again later."
CORRECT_ANSWER == "You answered correctly!"
YOU_ARE_ELIMINATED == "Did not receive a correct response! You have been eliminated from the game!"
YOU_ARE_THE_WINNER == "Congratulations, you are the winner!"

\* The upstream trivia record handed to opentdb_json_to_question.
correct_answer == "C"
incorrect_answers == <<"A", "B">>

\* A JSON array or object, which Python decodes to a list or a dict: a value
\* that cannot be hashed.
UNHASHABLE == "[]"

\* What a client may put in the "result" field of its response: the
\* choices, a string that is no choice, and a value that is no string.
ClientResults == {"A", "B", "C", "X", UNHASHABLE}

Range(s) == {s[i] : i \in DOMAIN s}

\* list.insert(i, x) with a 0-based index
Insert(s, i, x) == SubSeq(s, 1, i) \o <<x>> \o SubSeq(s, i + 1, Len(s))

\* Question(question, choices, answer); the prompt text plays no role.
Question(choices, answer) == [choices |-> choices, answer |-> answer]

\* opentdb_json_to_question with random.randint(0, len(incorrect)) = random_index
opentdb_json_to_question(random_index) ==
    Question(Insert(incorrect_answers, random_index, correct_answer), correct_answer)

NoQuestion == Question(<<>>, None)

\* ---------------------------------------------------------------- messages
\* json-rpc request built by Player.send_json_rpc_request
Request(id, method, params) == [id |-> id, method |-> method, params |-> params]

\* params of the three kinds of request, with the same fields so that any
\* two requests can be compared
Params(message, round, choices, answer, counts) ==
    [message |-> message, round |-> round, choices |-> choices,
     answer |-> answer, choice_counts |-> counts]

\* Player.send_announcement: params = {message}
AnnouncementParams(message) == Params(message, 0, <<>>, None, <<>>)

\* mutant: the rounds are announced from 0
RoundStartingParamsFromZero(round) ==
    Params(GAME_ROUND_STARTING, round - 1, <<>>, None, <<>>)

\* TEMPLATE_GAME_ROUND_STARTING.substitute(round=...)
RoundStartingParams(round) == Params(GAME_ROUND_STARTING, round, <<>>, None, <<>>)

\* Player.send_question: the question's __dict__ without 'answer'
QuestionParams(q) == Params("", 0, q.choices, None, <<>>)

\* Player.send_answers: the whole question and the counts
AnswersParams(q, counts) == Params("", 0, q.choices, q.answer, counts)

\* ------------------------------------------------------------------- state
\* A player is known by its websocket connection; the players of a session
\* constructed directly are numbered from 1 as well.
Peers == P \cup Conns

\* the sessions there can be: each one takes at least one connection
GameIds == 1..MaxConns

\* the session was not started by a connection handler
NoRunner == 0

VARIABLES
    games,          \* the GameSessions created so far, in order of creation;
                    \* each one a record of the fields of the object and of
                    \* the locals of its run()
    task,           \* per player: where send_question_and_get_answer is
    answer,         \* per player: what send_question_and_get_answer returned
    timed_out,      \* players whose asyncio.wait_for raised TimeoutError this round
    future,         \* per player: number of set_result calls on Player.future
    sent,           \* per player: requests handed to websocket.send, in order
    next_json_rcp_request_id, \* per player: Player.next_json_rcp_request_id
    faults,         \* exceptions other than ConnectionClosed raised so far
    fault_sites,    \* the websocket calls that may raise such an exception
    clients,        \* per connection: what its client and its network do
    early,          \* client messages sent so far while no recv was pending
    waiting_players, \* GameManager.waiting_players
    next_game_id,   \* GameManager.next_game_id
    handler,        \* per connection: where its wait_until_game_complete is
    transport,      \* what the websocket did in the call of the latest step
    inbox           \* per player: the client messages its websocket has buffered

\* the coroutines of the round interaction
round_vars == <<task, answer, timed_out>>

\* what Player.send_json_rpc_request changes
wire_vars == <<sent, next_json_rcp_request_id, faults>>

\* the state of the GameManager and of the connection handlers
manager_vars == <<waiting_players, next_game_id, handler>>

\* what the environment is; no step of the program changes it
env_vars == <<fault_sites, clients, early>>

vars == <<games, task, answer, timed_out, future, sent, next_json_rcp_request_id,
          faults, fault_sites, clients, early, waiting_players, next_game_id, handler,
          transport, inbox>>

\* The session that is followed when there is only one: the fields of a
\* GameSession constructed directly, and the locals of its run().
players == games[1].players                  \* GameSession.players
current_round == games[1].current_round      \* GameSession.current_round
pc == games[1].pc                            \* where run() is
question == games[1].question                \* the question of the round
answers == games[1].answers                  \* the list gather returned
survivors == games[1].survivors              \* local of broadcast_results_and_eliminate_players
eliminated == games[1].eliminated            \* local of broadcast_results_and_eliminate_players
choice_counts == games[1].choice_counts      \* local of broadcast_results_and_eliminate_players
pending == games[1].pending                  \* players whose send in the current gather has not run
gather_raised == games[1].gather_raised      \* a child of the current gather has raised
session_players == games[1].session_players  \* the players the session was constructed with
result == games[1].result                    \* what the last execute_next_round returned

\* ------------------------------------------------------- connection handle
\* The websocket calls of the program, by the place that makes them.
RoundSites == {"round_starting", "question", "recv"}
Sites == RoundSites \cup {"answers", "verdict", "winner", "network_error"}

\* whether the call made at this place may raise an exception other than
\* ConnectionClosed
MayRaise(site) == site \in fault_sites /\ faults < MaxFaults

\* whether the send made at this place may never complete (the peer has
\* stopped reading and the write buffer is full)
MayStall(site) == "stall" \in fault_sites /\ site \in {"round_starting", "question"}

\* A client that never connects is "absent".  A "plain" client keeps its
\* connection open and answers a question with the correct choice, with a
\* wrong one, or not at all; "any" client may also close the connection or
\* send whatever it likes.
PlainResults == {"A", correct_answer}

\* run() plays on until the game is over; the rounds followed are MaxRounds
\* of a session constructed directly and ManagerRounds of one that a
\* connection handler runs.
RoundLimit(runner) == IF runner = NoRunner THEN MaxRounds ELSE ManagerRounds

\* What websocket.send can do: succeed, raise ConnectionClosed, raise
\* another exception, or not complete.
SendOutcomes(site, p) ==
    (IF clients[p] = "plain" THEN {"ok"} ELSE {"ok", "closed"})
        \cup (IF MayRaise(site) THEN {"error"} ELSE {})
        \cup (IF MayStall(site) THEN {"stalled"} ELSE {})

\* What websocket.recv can do for player p: deliver a well-formed response
\* with a result, deliver text that is no such response, raise
\* ConnectionClosed, or raise another exception.
RecvOutcomes(p) ==
    (IF clients[p] = "plain" THEN PlainResults
     ELSE ClientResults \cup {"malformed", "closed"})
        \cup (IF MayRaise("recv") THEN {"error"} ELSE {})

\* websocket.recv returns the oldest message the websocket has buffered, and
\* waits for the client only when there is none.
Delivered(p) ==
    IF inbox[p] # <<>> THEN {Head(inbox[p]).result} ELSE RecvOutcomes(p)

\* mutant: the request id is not incremented
send_json_rpc_request_same_id(p, method, params, outcome) ==
    /\ sent' = [sent EXCEPT ![p] =
                   Append(@, Request(next_json_rcp_request_id[p], method, params))]
    /\ next_json_rcp_request_id' = next_json_rcp_request_id
    /\ faults' = IF outcome = "error" THEN faults + 1 ELSE faults
    /\ transport' = outcome

\* Player.send_json_rpc_request: the request takes the next id, is handed to
\* websocket.send; ConnectionClosed is swallowed, anything else propagates.
send_json_rpc_request(p, method, params, outcome) ==
    /\ sent' = [sent EXCEPT ![p] =
                   Append(@, Request(next_json_rcp_request_id[p], method, params))]
    /\ next_json_rcp_request_id' = [next_json_rcp_request_id EXCEPT ![p] = @ + 1]
    /\ faults' = IF outcome = "error" THEN faults + 1 ELSE faults
    /\ transport' = outcome

\* mutant: ConnectionClosed is not caught either
ReturnedOnlyOk(outcome) == outcome = "ok"

\* whether the send returned normally to its caller
Returned(outcome) == outcome \notin {"error", "stalled"}

\* where send_question_and_get_answer is after a send: at the next
\* statement, suspended in the send for good, or returned through the bare
\* except
AfterSend(outcome, next) ==
    IF Returned(outcome) THEN next
    ELSE IF outcome = "stalled" THEN "stalled" ELSE "done"

send_announcement(p, params, outcome) ==
    send_json_rpc_request(p, "announcement", params, outcome)

\* mutant: the question is sent whole, as send_answers sends it
send_question_whole(p, q, outcome) ==
    send_json_rpc_request(p, "ask_question",
                          Params("", 0, q.choices, q.answer, <<>>), outcome)

send_question(p, q, outcome) ==
    send_json_rpc_request(p, "ask_question", QuestionParams(q), outcome)

send_answers(p, q, counts, outcome) ==
    send_json_rpc_request(p, "answers", AnswersParams(q, counts), outcome)

\* Player.receive_json_rpc_response and recv_answer: the result field of a
\* well-formed response; None when the connection is closed or the text
\* does not parse.  (An exception other than ConnectionClosed propagates;
\* the caller decides, see RecvAnswer.)
\* mutant: whatever the websocket call produced is returned
recv_answer_raw(outcome) == outcome

recv_answer(outcome) ==
    IF outcome \in ClientResults THEN outcome ELSE None

\* Future.set_result, counted per future
set_result(f) == f + 1

\* ----------------------------------------------------------- round engine
\* The partition and the tally of broadcast_results_and_eliminate_players.
Indices(ps, ans, q, keep) ==
    {i \in 1..Len(ps) : (q.answer = ans[i]) = keep}

RECURSIVE OrderedLatestFirst(_, _)
\* mutant: the elements of ps at the indices idx, the last of the list first
OrderedLatestFirst(ps, idx) ==
    IF idx = {} THEN <<>>
    ELSE LET i == CHOOSE j \in idx : \A k \in idx : j <= k
         IN  OrderedLatestFirst(ps, idx \ {i}) \o <<ps[i]>>

RECURSIVE Ordered(_, _)
\* the elements of ps at the indices idx, in list order
Ordered(ps, idx) ==
    IF idx = {} THEN <<>>
    ELSE LET i == CHOOSE j \in idx : \A k \in idx : j <= k
         IN  <<ps[i]>> \o Ordered(ps, idx \ {i})

\* mutant: the player list is never reduced
SurvivorsKeepAll(ps, ans, q) == ps

\* survivors.append(self.players[i]) when question.answer == answers[i]
Survivors(ps, ans, q) == Ordered(ps, Indices(ps, ans, q, TRUE))

\* mutant: every player of the round is eliminated
EliminatedEveryone(ps, ans, q) == ps

\* eliminated.append(self.players[i]) otherwise
Eliminated(ps, ans, q) == Ordered(ps, Indices(ps, ans, q, FALSE))

\* counter[answers[i]] raises TypeError when the answer is a list or a dict
CounterRaises(ans) == \E i \in 1..Len(ans) : ans[i] = UNHASHABLE

\* mutant: the first answer is not counted
CounterOffByOne(ans, key) == Cardinality({i \in 2..Len(ans) : ans[i] = key})

\* counter[answers[i]] += 1 for every i; a missing key counts 0
Counter(ans, key) == Cardinality({i \in 1..Len(ans) : ans[i] = key})

\* choice_counts[i] = counter[question.choices[i]]
ChoiceCounts(q, ans) == [i \in 1..Len(q.choices) |-> Counter(ans, q.choices[i])]

\* mutant: no future is set
handle_eliminated_players_unset(fut, ps) == fut

\* GameSession.handle_eliminated_players: set_result on each one's future
handle_eliminated_players(fut, ps) ==
    [p \in Peers |-> IF p \in Range(ps) THEN set_result(fut[p]) ELSE fut[p]]

\* mutant: a lone survivor is not recognised
OneRemainingNever(ps) == Len(ps) < 0

\* mutant: the first of several survivors is declared the winner
OneRemainingAtLeast(ps) == Len(ps) >= 1

\* notify_winner_if_one_remaining, line 271: len(self.players) == 1
OneRemaining(ps) == Len(ps) = 1

\* mutant: the game always continues
GameContinuesAlways(ps) == Len(ps) >= 0

\* notify_winner_if_one_remaining, line 279: len(self.players) != 0, which
\* execute_next_round returns and run() loops on
GameContinues(ps) == Len(ps) # 0

\* -------------------------------------------------------------------- init
\* mutant: the session keeps the waiting list itself, which the manager
\* clears right after creating the session
GameSessionNoCopy(game_id, ps, runner) ==
    [game_id |-> game_id, players |-> <<>>, current_round |-> 0,
     session_players |-> ps, runner |-> runner, pc |-> "run",
     question |-> NoQuestion, answers |-> <<>>, survivors |-> <<>>,
     eliminated |-> <<>>, choice_counts |-> <<>>, pending |-> {},
     gather_raised |-> FALSE, result |-> "none"]

\* GameSession(game_id, players): the session keeps a copy of the list and
\* starts at round 0; runner is the connection whose handler awaits run(),
\* and the other fields are the locals of run(), not yet assigned.
GameSession(game_id, ps, runner) ==
    [game_id |-> game_id, players |-> ps, current_round |-> 0,
     session_players |-> ps, runner |-> runner, pc |-> "run",
     question |-> NoQuestion, answers |-> <<>>, survivors |-> <<>>,
     eliminated |-> <<>>, choice_counts |-> <<>>, pending |-> {},
     gather_raised |-> FALSE, result |-> "none"]

\* GameManager.__init__: nobody waits, no game was created, and no
\* connection has been accepted
NoManager ==
    /\ waiting_players = <<>>
    /\ next_game_id = 1
    /\ handler = [c \in Conns |-> "idle"]

\* The clients the server is followed with.  Two sessions side by side are
\* followed with AnyClients clients that do as they like and plain ones
\* otherwise; when every client does as it likes, AnyConns of them connect.
ManagerClients ==
    { [c \in Peers |-> IF c <= AnyConns THEN "any" ELSE "absent"],
      [c \in Peers |-> IF c <= AnyClients THEN "any" ELSE "plain"] }

\* newly connected players: nothing was sent or received, no future is set
\* (those in waited have been sent the waiting announcement)
ConnectedAs(sites, waited, cs) ==
    /\ fault_sites = sites
    /\ clients = cs
    /\ early = 0
    /\ task = [p \in Peers |-> "none"]
    /\ answer = [p \in Peers |-> None]
    /\ timed_out = {}
    /\ future = [p \in Peers |-> 0]
    /\ sent = [p \in Peers |->
                  IF p \in waited
                  THEN <<Request(1, "announcement",
                                 AnnouncementParams(WAITING_FOR_PLAYERS))>>
                  ELSE <<>>]
    /\ next_json_rcp_request_id = [p \in Peers |-> IF p \in waited THEN 2 ELSE 1]
    /\ faults = 0
    /\ transport = "none"
    /\ inbox = [p \in Peers |-> <<>>]

Connected(sites, waited) == ConnectedAs(sites, waited, [p \in Peers |-> "any"])

\* GameSession.__init__ on a list of n connected players, of which those in
\* waited have been sent the waiting announcement by the GameManager
CreatedWith(sites, n, waited) ==
    /\ games = <<GameSession(1, [i \in 1..n |-> i], NoRunner)>>
    /\ Connected(sites, waited)
    /\ NoManager

\* GameSession.__init__ on a list of n newly connected players
Created(sites, n) == CreatedWith(sites, n, {})

\* a session as the GameManager creates it: with at least one player
Start(sites) == \E n \in 1..NumPlayers : Created(sites, n)

\* ----------------------------------------------------------------- actions
\* Every action is one task of the event loop running from one suspension
\* to the next: a request is handed to the websocket when send is called,
\* and what follows the await runs in a later step.

\* mutant: the abort addresses every player the session was created with
EnterAbortSessionPlayers(s) ==
    [s EXCEPT !.pc = "abort", !.pending = Range(s.session_players),
              !.gather_raised = FALSE, !.result = "raised"]

\* run() enters its except clause and abort_game starts the gather of the
\* network-error announcements for the players still in the list.
EnterAbort(s) ==
    [s EXCEPT !.pc = "abort", !.pending = Range(s.players),
              !.gather_raised = FALSE, !.result = "raised"]

\* run() calls execute_next_round: the round counter is incremented and the
\* question is requested (lines 80-86).
StartRound(g) ==
    /\ g \in DOMAIN games
    /\ games[g].pc = "run"
    /\ games[g].current_round < RoundLimit(games[g].runner)
    /\ games' = [games EXCEPT ![g].current_round = @ + 1, ![g].pc = "fetch"]
    /\ transport' = "none"
    /\ UNCHANGED <<round_vars, future, wire_vars, env_vars, manager_vars, inbox>>

\* mutant: every round is played by all the players the session was created with
FetchQuestionAllPlayers(g) ==
    /\ g \in DOMAIN games
    /\ games[g].pc = "fetch"
    /\ \E random_index \in 0..Len(incorrect_answers) :
           games' = [games EXCEPT ![g].question = opentdb_json_to_question(random_index),
                                  ![g].pc = "ask",
                                  ![g].players = games[g].session_players]
    /\ task' = [p \in Peers |-> IF p \in Range(games[g].session_players)
                                THEN "announce" ELSE task[p]]
    /\ answer' = [p \in Peers |-> IF p \in Range(games[g].session_players)
                                  THEN None ELSE answer[p]]
    /\ timed_out' = timed_out \ Range(games[g].session_players)
    /\ transport' = "none"
    /\ UNCHANGED <<future, wire_vars, env_vars, manager_vars, inbox>>

\* Question.generate returns: the gather of
\* broadcast_question_and_wait_for_answers starts one
\* send_question_and_get_answer per player.
FetchQuestion(g) ==
    /\ g \in DOMAIN games
    /\ games[g].pc = "fetch"
    /\ \E random_index \in 0..Len(incorrect_answers) :
           games' = [games EXCEPT ![g].question = opentdb_json_to_question(random_index),
                                  ![g].pc = "ask"]
    /\ task' = [p \in Peers |-> IF p \in Range(games[g].players)
                                THEN "announce" ELSE task[p]]
    /\ answer' = [p \in Peers |-> IF p \in Range(games[g].session_players)
                                  THEN None ELSE answer[p]]
    /\ timed_out' = timed_out \ Range(games[g].session_players)
    /\ transport' = "none"
    /\ UNCHANGED <<future, wire_vars, env_vars, manager_vars, inbox>>

\* mutant: the question is fetched after the round was announced
FetchFailsLate(g) ==
    /\ g \in DOMAIN games
    /\ games[g].pc = "ask"
    /\ \A p \in Range(games[g].players) : task[p] = "question"
    /\ games' = [games EXCEPT ![g] = EnterAbort(@)]
    /\ transport' = "none"
    /\ UNCHANGED <<round_vars, future, wire_vars, env_vars, manager_vars, inbox>>

\* Question.generate raises: execute_next_round raises into run()'s except.
FetchFails(g) ==
    /\ g \in DOMAIN games
    /\ games[g].pc = "fetch"
    /\ games' = [games EXCEPT ![g] = EnterAbort(@)]
    /\ transport' = "none"
    /\ UNCHANGED <<round_vars, future, wire_vars, env_vars, manager_vars, inbox>>

\* mutant: the coroutine goes from the announcement straight to the receive
SendRoundStartingSkipsQuestion(g, p) ==
    /\ g \in DOMAIN games
    /\ games[g].pc = "ask"
    /\ p \in Range(games[g].players)
    /\ task[p] = "announce"
    /\ \E outcome \in SendOutcomes("round_starting", p) :
           /\ send_announcement(p, RoundStartingParams(games[g].current_round), outcome)
           /\ task' = [task EXCEPT ![p] = AfterSend(outcome, "recv")]
    /\ UNCHANGED <<games, answer, timed_out, future, env_vars, manager_vars, inbox>>

\* send_question_and_get_answer, line 144: the round-start announcement.
\* An exception lands in the bare except and the coroutine returns None.
SendRoundStarting(g, p) ==
    /\ g \in DOMAIN games
    /\ games[g].pc = "ask"
    /\ p \in Range(games[g].players)
    /\ task[p] = "announce"
    /\ \E outcome \in SendOutcomes("round_starting", p) :
           /\ send_announcement(p, RoundStartingParams(games[g].current_round), outcome)
           /\ task' = [task EXCEPT ![p] = AfterSend(outcome, "question")]
    /\ UNCHANGED <<games, answer, timed_out, future, env_vars, manager_vars, inbox>>

\* send_question_and_get_answer, line 146: the question.
SendQuestion(g, p) ==
    /\ g \in DOMAIN games
    /\ games[g].pc = "ask"
    /\ p \in Range(games[g].players)
    /\ task[p] = "question"
    /\ \E outcome \in SendOutcomes("question", p) :
           /\ send_question(p, games[g].question, outcome)
           /\ task' = [task EXCEPT ![p] = AfterSend(outcome, "recv")]
    /\ UNCHANGED <<games, answer, timed_out, future, env_vars, manager_vars, inbox>>

\* send_question_and_get_answer, line 148: recv_answer completes in time.
\* An exception lands in the bare except and the coroutine returns None.
RecvAnswer(g, p) ==
    /\ g \in DOMAIN games
    /\ games[g].pc = "ask"
    /\ p \in Range(games[g].players)
    /\ task[p] = "recv"
    /\ \E outcome \in Delivered(p) :
           /\ answer' = [answer EXCEPT ![p] =
                            IF outcome = "error" THEN None ELSE recv_answer(outcome)]
           /\ faults' = IF outcome = "error" THEN faults + 1 ELSE faults
           /\ transport' = outcome
    /\ inbox' = [inbox EXCEPT ![p] = IF @ = <<>> THEN @ ELSE Tail(@)]
    /\ task' = [task EXCEPT ![p] = "done"]
    /\ UNCHANGED <<games, timed_out, future, sent, next_json_rcp_request_id,
                   env_vars, manager_vars>>

\* send_question_and_get_answer, lines 152-155 and 161: asyncio.wait_for
\* raises TimeoutError after CONFIG_ROUND_DURATION and the coroutine returns
\* None.  The timer can win against a message that has just arrived, which
\* then stays in the buffer of the websocket.
Timeout(g, p) ==
    /\ g \in DOMAIN games
    /\ games[g].pc = "ask"
    /\ p \in Range(games[g].players)
    /\ task[p] = "recv"
    /\ answer' = [answer EXCEPT ![p] = None]
    /\ timed_out' = timed_out \cup {p}
    /\ task' = [task EXCEPT ![p] = "done"]
    /\ transport' = "none"
    /\ UNCHANGED <<games, future, wire_vars, env_vars, manager_vars, inbox>>

\* broadcast_results_and_eliminate_players up to its first await: the
\* partition and the counts, and the start of the gather of send_answers.
\* An answer that cannot be hashed makes the Counter raise (line 227), and
\* the exception leaves execute_next_round.
Tally(s, ans) ==
    IF CounterRaises(ans)
    THEN [EnterAbort(s) EXCEPT !.answers = ans]
    ELSE [s EXCEPT !.answers = ans,
                   !.survivors = Survivors(s.players, ans, s.question),
                   !.eliminated = Eliminated(s.players, ans, s.question),
                   !.choice_counts = ChoiceCounts(s.question, ans),
                   !.pending = Range(s.players),
                   !.gather_raised = FALSE,
                   !.pc = "answers"]

\* mutant: the gather completes as soon as one coroutine has returned
TallyAnswersEarly(g) ==
    /\ g \in DOMAIN games
    /\ games[g].pc = "ask"
    /\ \E p \in Range(games[g].players) : task[p] = "done"
    /\ LET ans == [i \in 1..Len(games[g].players) |-> answer[games[g].players[i]]]
       IN  games' = [games EXCEPT ![g] = Tally(@, ans)]
    /\ task' = [p \in Peers |-> IF p \in Range(games[g].players) THEN "none" ELSE task[p]]
    /\ transport' = "none"
    /\ UNCHANGED <<answer, timed_out, future, wire_vars, env_vars, manager_vars,
                   inbox>>

\* The gather of broadcast_question_and_wait_for_answers completes once every
\* coroutine has returned, with the answers in the order of the players.
TallyAnswers(g) ==
    /\ g \in DOMAIN games
    /\ games[g].pc = "ask"
    /\ \A p \in Range(games[g].players) : task[p] = "done"
    /\ LET ans == [i \in 1..Len(games[g].players) |-> answer[games[g].players[i]]]
       IN  games' = [games EXCEPT ![g] = Tally(@, ans)]
    /\ task' = [p \in Peers |-> IF p \in Range(games[g].players) THEN "none" ELSE task[p]]
    /\ transport' = "none"
    /\ UNCHANGED <<answer, timed_out, future, wire_vars, env_vars, manager_vars,
                   inbox>>

\* broadcast_results, lines 185-187: one child of the gather sends the
\* results to its player.
SendAnswers(g, p) ==
    /\ g \in DOMAIN games
    /\ games[g].pc = "answers"
    /\ p \in games[g].pending
    /\ \E outcome \in SendOutcomes("answers", p) :
           /\ send_answers(p, games[g].question, games[g].choice_counts, outcome)
           /\ games' = [games EXCEPT ![g].pending = @ \ {p},
                                     ![g].gather_raised = (@ \/ ~Returned(outcome))]
    /\ UNCHANGED <<round_vars, future, env_vars, manager_vars, inbox>>

\* mutant: the futures of the eliminated are set before they are told
AnswersBroadcastSignals(g) ==
    /\ g \in DOMAIN games
    /\ games[g].pc = "answers"
    /\ games[g].pending = {}
    /\ games' = [games EXCEPT ![g] =
                    IF @.gather_raised THEN EnterAbort(@)
                    ELSE [@ EXCEPT !.pc = "verdict",
                                   !.pending = Range(games[g].survivors)
                                              \cup Range(games[g].eliminated)]]
    /\ future' = handle_eliminated_players(future, games[g].eliminated)
    /\ transport' = "none"
    /\ UNCHANGED <<round_vars, wire_vars, env_vars, manager_vars, inbox>>

\* The first gather of broadcast_results is over: it raises what a child
\* raised, or the second gather starts.
AnswersBroadcast(g) ==
    /\ g \in DOMAIN games
    /\ games[g].pc = "answers"
    /\ games[g].pending = {}
    /\ games' = [games EXCEPT ![g] =
                    IF @.gather_raised THEN EnterAbort(@)
                    ELSE [@ EXCEPT !.pc = "verdict",
                                   !.pending = Range(games[g].survivors)
                                              \cup Range(games[g].eliminated)]]
    /\ transport' = "none"
    /\ UNCHANGED <<round_vars, future, wire_vars, env_vars, manager_vars, inbox>>

\* mutant: the second gather does not wait for the first
SendVerdictEarly(g, p) ==
    /\ g \in DOMAIN games
    /\ games[g].pc \in {"answers", "verdict"}
    /\ p \in games[g].pending
    /\ \E outcome \in SendOutcomes("verdict", p) :
           /\ send_announcement(p,
                  AnnouncementParams(IF p \in Range(games[g].survivors)
                                     THEN CORRECT_ANSWER
                                     ELSE YOU_ARE_ELIMINATED), outcome)
           /\ games' = [games EXCEPT ![g].pending = @ \ {p},
                                     ![g].gather_raised = (@ \/ ~Returned(outcome))]
    /\ UNCHANGED <<round_vars, future, env_vars, manager_vars, inbox>>

\* broadcast_results, lines 193-198: one child of the second gather tells
\* its player whether it survived.
SendVerdict(g, p) ==
    /\ g \in DOMAIN games
    /\ games[g].pc = "verdict"
    /\ p \in games[g].pending
    /\ \E outcome \in SendOutcomes("verdict", p) :
           /\ send_announcement(p,
                  AnnouncementParams(IF p \in Range(games[g].survivors)
                                     THEN CORRECT_ANSWER
                                     ELSE YOU_ARE_ELIMINATED), outcome)
           /\ games' = [games EXCEPT ![g].pending = @ \ {p},
                                     ![g].gather_raised = (@ \/ ~Returned(outcome))]
    /\ UNCHANGED <<round_vars, future, env_vars, manager_vars, inbox>>

\* mutant: the round only computes the partition and leaves the session alone
EliminatePlayersKeepsList(g) ==
    /\ g \in DOMAIN games
    /\ games[g].pc = "verdict"
    /\ games[g].pending = {}
    /\ games' = [games EXCEPT ![g] =
                    IF @.gather_raised THEN EnterAbort(@)
                    ELSE [@ EXCEPT !.pc = "notify"]]
    /\ transport' = "none"
    /\ UNCHANGED <<round_vars, future, wire_vars, env_vars, manager_vars, inbox>>

\* The second gather is over.  Without an exception the player list becomes
\* the survivors (line 240) and execute_next_round calls
\* handle_eliminated_players on the eliminated (line 99).
EliminatePlayers(g) ==
    /\ g \in DOMAIN games
    /\ games[g].pc = "verdict"
    /\ games[g].pending = {}
    /\ IF games[g].gather_raised
       THEN /\ games' = [games EXCEPT ![g] = EnterAbort(@)]
            /\ UNCHANGED future
       ELSE /\ games' = [games EXCEPT ![g].players = games[g].survivors,
                                      ![g].pc = "notify"]
            /\ future' = handle_eliminated_players(future, games[g].eliminated)
    /\ transport' = "none"
    /\ UNCHANGED <<round_vars, wire_vars, env_vars, manager_vars, inbox>>

\* notify_winner_if_one_remaining with one player left, line 272: the
\* announcement is handed to the winner's websocket.
NotifyWinner(g) ==
    /\ g \in DOMAIN games
    /\ games[g].pc = "notify"
    /\ OneRemaining(games[g].players)
    /\ \E outcome \in SendOutcomes("winner", games[g].players[1]) :
           /\ send_announcement(games[g].players[1],
                                AnnouncementParams(YOU_ARE_THE_WINNER), outcome)
           /\ games' = [games EXCEPT ![g] =
                           IF Returned(outcome) THEN [@ EXCEPT !.pc = "winner"]
                           ELSE EnterAbort(@)]
    /\ UNCHANGED <<round_vars, future, env_vars, manager_vars, inbox>>

\* notify_winner_if_one_remaining, lines 275-279, once the send has
\* returned: set_result on the winner's future and del self.players[0]; the
\* round returns whether players remain.
SignalWinner(g) ==
    /\ g \in DOMAIN games
    /\ games[g].pc = "winner"
    /\ future' = [future EXCEPT ![games[g].players[1]] = set_result(@)]
    /\ LET rest == Tail(games[g].players)
       IN  games' = [games EXCEPT
                        ![g].players = rest,
                        ![g].result = IF GameContinues(rest) THEN "True" ELSE "False",
                        ![g].pc = IF GameContinues(rest) THEN "run" ELSE "returned"]
    /\ transport' = "none"
    /\ UNCHANGED <<round_vars, wire_vars, env_vars, manager_vars, inbox>>

\* notify_winner_if_one_remaining otherwise: nothing is sent, the round
\* returns whether players remain, and run() loops on True.
NoWinner(g) ==
    /\ g \in DOMAIN games
    /\ games[g].pc = "notify"
    /\ ~OneRemaining(games[g].players)
    /\ games' = [games EXCEPT
                    ![g].result = IF GameContinues(games[g].players) THEN "True" ELSE "False",
                    ![g].pc = IF GameContinues(games[g].players) THEN "run" ELSE "returned"]
    /\ transport' = "none"
    /\ UNCHANGED <<round_vars, future, wire_vars, env_vars, manager_vars, inbox>>

\* abort_game, lines 68-71: one child of the gather sends the network-error
\* announcement to its player.
SendNetworkError(g, p) ==
    /\ g \in DOMAIN games
    /\ games[g].pc = "abort"
    /\ p \in games[g].pending
    /\ \E outcome \in SendOutcomes("network_error", p) :
           /\ send_announcement(p, AnnouncementParams(NETWORK_ERROR_OCCURRED),
                                outcome)
           /\ games' = [games EXCEPT ![g].pending = @ \ {p},
                                     ![g].gather_raised = (@ \/ ~Returned(outcome))]
    /\ UNCHANGED <<round_vars, future, env_vars, manager_vars, inbox>>

\* mutant: run() swallows the failure after the cleanup and returns
AbortGameReturns(g) ==
    /\ g \in DOMAIN games
    /\ games[g].pc = "abort"
    /\ games[g].pending = {}
    /\ IF games[g].gather_raised
       THEN /\ games' = [games EXCEPT ![g].pc = "returned"]
            /\ UNCHANGED future
       ELSE /\ games' = [games EXCEPT ![g].pc = "returned", ![g].players = <<>>]
            /\ future' = handle_eliminated_players(future, games[g].players)
    /\ transport' = "none"
    /\ UNCHANGED <<round_vars, wire_vars, env_vars, manager_vars, inbox>>

\* abort_game, lines 73-74, and the raise of run(): when the gather raised,
\* abort_game raises before it reaches them.
AbortGame(g) ==
    /\ g \in DOMAIN games
    /\ games[g].pc = "abort"
    /\ games[g].pending = {}
    /\ IF games[g].gather_raised
       THEN /\ games' = [games EXCEPT ![g].pc = "raised"]
            /\ UNCHANGED future
       ELSE /\ games' = [games EXCEPT ![g].pc = "raised", ![g].players = <<>>]
            /\ future' = handle_eliminated_players(future, games[g].players)
    /\ transport' = "none"
    /\ UNCHANGED <<round_vars, wire_vars, env_vars, manager_vars, inbox>>

\* the steps of the sessions
Next ==
    \/ \E g \in GameIds : StartRound(g)
    \/ \E g \in GameIds : FetchQuestion(g)
    \/ \E g \in GameIds : FetchFails(g)
    \/ \E g \in GameIds : \E p \in Peers : SendRoundStarting(g, p)
    \/ \E g \in GameIds : \E p \in Peers : SendQuestion(g, p)
    \/ \E g \in GameIds : \E p \in Peers : RecvAnswer(g, p)
    \/ \E g \in GameIds : \E p \in Peers : Timeout(g, p)
    \/ \E g \in GameIds : TallyAnswers(g)
    \/ \E g \in GameIds : \E p \in Peers : SendAnswers(g, p)
    \/ \E g \in GameIds : AnswersBroadcast(g)
    \/ \E g \in GameIds : \E p \in Peers : SendVerdict(g, p)
    \/ \E g \in GameIds : EliminatePlayers(g)
    \/ \E g \in GameIds : NotifyWinner(g)
    \/ \E g \in GameIds : SignalWinner(g)
    \/ \E g \in GameIds : NoWinner(g)
    \/ \E g \in GameIds : \E p \in Peers : SendNetworkError(g, p)
    \/ \E g \in GameIds : AbortGame(g)

\* the program with the transport as the websockets library provides it
Init == Start({})

Spec == Init /\ [][Next]_vars

\* ... with exceptions raised inside the per-player round interaction
InitRoundFault == Start(RoundSites)

SpecRoundFault == InitRoundFault /\ [][Next]_vars

\* ... with exceptions raised by any websocket call
InitFault == Start(Sites)

SpecFault == InitFault /\ [][Next]_vars

\* ... with sends of the round interaction that never complete
InitStall == Start({"stall"})

SpecStall == InitStall /\ [][Next]_vars

\* ... with a GameSession constructed directly on any list, the empty one
\* included
InitDirect == \E n \in 0..NumPlayers : Created({}, n)

SpecDirect == InitDirect /\ [][Next]_vars

\* ... with sessions as the GameManager creates them: every player but the
\* one that completed the quorum has been sent the waiting announcement
InitWaited == \E n \in 1..NumPlayers : CreatedWith({}, n, 1..(n - 1))

SpecWaited == InitWaited /\ [][Next]_vars

\* a message of the client: its result, and how many questions the client
\* had been sent when it sent the message
Response(r, asked) == [result |-> r, asked |-> asked]

\* The client of a player sends a message when the server is not waiting
\* for one, or sends a second one; the websocket buffers it.  Nothing in
\* the program closes a connection, so a client can send whatever it likes
\* before, during and after the rounds of its player.
ClientSendsEarly(p) ==
    /\ "eager" \in fault_sites
    /\ \E g \in DOMAIN games : p \in Range(games[g].session_players)
    /\ Len(inbox[p]) < MaxInbox
    /\ early < MaxEarly
    /\ early' = early + 1
    /\ \E r \in ClientResults \cup {"malformed"} :
           inbox' = [inbox EXCEPT ![p] =
                        Append(@, Response(r, Cardinality({k \in DOMAIN sent[p] :
                                               sent[p][k].method = "ask_question"})))]
    /\ transport' = "none"
    /\ UNCHANGED <<games, round_vars, future, wire_vars, fault_sites, clients, manager_vars>>

NextEager ==
    \/ Next
    \/ \E p \in Peers : ClientSendsEarly(p)

\* ... with clients that send responses nobody asked for
InitEager == \E n \in 1..EagerPlayers : Created({"eager"}, n)

SpecEager == InitEager /\ [][NextEager]_vars

\* ------------------------------------------------------------ game manager
\* GameManager.wait_until_game_complete for every accepted connection; the
\* sessions it creates run as above, each in the handler of the connection
\* that completed its quorum.

\* mutant: a game starts only when more than the quorum is waiting
QuorumExceeded(waiting) == Len(waiting) > CONFIG_PLAYERS_PER_GAME

\* wait_until_game_complete, line 90
Quorum(waiting) == Len(waiting) >= CONFIG_PLAYERS_PER_GAME

\* mutant: the waiting list is not cleared when a game is created
OfferKeepsWaiting(c) ==
    /\ handler[c] = "idle"
    /\ clients[c] # "absent"
    /\ \A d \in Conns : d < c => handler[d] # "idle"
    /\ LET waiting == Append(waiting_players, c)
       IN  IF Quorum(waiting)
           THEN /\ games' = Append(games, GameSession(next_game_id, waiting, c))
                /\ next_game_id' = next_game_id + 1
                /\ waiting_players' = waiting
                /\ handler' = [handler EXCEPT ![c] = "run"]
                /\ transport' = "none"
                /\ UNCHANGED wire_vars
           ELSE /\ waiting_players' = waiting
                /\ \E outcome \in SendOutcomes("waiting", c) :
                       send_announcement(c, AnnouncementParams(WAITING_FOR_PLAYERS),
                                         outcome)
                /\ handler' = [handler EXCEPT ![c] = "wait"]
                /\ UNCHANGED <<games, next_game_id>>
    /\ UNCHANGED <<round_vars, future, env_vars, inbox>>

\* mutant: the next game id is not incremented
OfferReusesId(c) ==
    /\ handler[c] = "idle"
    /\ clients[c] # "absent"
    /\ \A d \in Conns : d < c => handler[d] # "idle"
    /\ LET waiting == Append(waiting_players, c)
       IN  IF Quorum(waiting)
           THEN /\ games' = Append(games, GameSession(next_game_id, waiting, c))
                /\ next_game_id' = next_game_id
                /\ waiting_players' = <<>>
                /\ handler' = [handler EXCEPT ![c] = "run"]
                /\ transport' = "none"
                /\ UNCHANGED wire_vars
           ELSE /\ waiting_players' = waiting
                /\ \E outcome \in SendOutcomes("waiting", c) :
                       send_announcement(c, AnnouncementParams(WAITING_FOR_PLAYERS),
                                         outcome)
                /\ handler' = [handler EXCEPT ![c] = "wait"]
                /\ UNCHANGED <<games, next_game_id>>
    /\ UNCHANGED <<round_vars, future, env_vars, inbox>>

\* handle_new_websocket and wait_until_game_complete up to its first await:
\* the player joins the waiting list.  With a quorum a GameSession is
\* created on the list, the list is cleared and the handler awaits
\* game.run(); without, the waiting announcement is handed to the player's
\* websocket (line 101) and the handler goes on to await the future.
\* The connections are numbered in the order in which they are accepted.
Offer(c) ==
    /\ handler[c] = "idle"
    /\ clients[c] # "absent"
    /\ \A d \in Conns : d < c => handler[d] # "idle"
    /\ LET waiting == Append(waiting_players, c)
       IN  IF Quorum(waiting)
           THEN /\ games' = Append(games, GameSession(next_game_id, waiting, c))
                /\ next_game_id' = next_game_id + 1
                /\ waiting_players' = <<>>
                /\ handler' = [handler EXCEPT ![c] = "run"]
                /\ transport' = "none"
                /\ UNCHANGED wire_vars
           ELSE /\ waiting_players' = waiting
                /\ \E outcome \in SendOutcomes("waiting", c) :
                       send_announcement(c, AnnouncementParams(WAITING_FOR_PLAYERS),
                                         outcome)
                /\ handler' = [handler EXCEPT ![c] = "wait"]
                /\ UNCHANGED <<games, next_game_id>>
    /\ UNCHANGED <<round_vars, future, env_vars, inbox>>

\* mutant: the handler returns whether or not the future is set
AwaitFutureUnset(c) ==
    /\ handler[c] = "wait"
    /\ future[c] >= 0
    /\ handler' = [handler EXCEPT ![c] = "done"]
    /\ transport' = "none"
    /\ UNCHANGED <<games, round_vars, future, wire_vars, env_vars,
                   waiting_players, next_game_id, inbox>>

\* wait_until_game_complete, line 104: await player.future returns once the
\* future is set, and the handler returns
AwaitFuture(c) ==
    /\ handler[c] = "wait"
    /\ future[c] >= 1
    /\ handler' = [handler EXCEPT ![c] = "done"]
    /\ transport' = "none"
    /\ UNCHANGED <<games, round_vars, future, wire_vars, env_vars,
                   waiting_players, next_game_id, inbox>>

\* wait_until_game_complete, line 97: game.run() has returned, and the
\* handler goes on to await the future of its own player.
SessionReturns(g) ==
    /\ g \in DOMAIN games
    /\ games[g].pc = "returned"
    /\ games[g].runner \in Conns
    /\ handler[games[g].runner] = "run"
    /\ handler' = [handler EXCEPT ![games[g].runner] = "wait"]
    /\ transport' = "none"
    /\ UNCHANGED <<games, round_vars, future, wire_vars, env_vars,
                   waiting_players, next_game_id, inbox>>

\* mutant: the exception ends every connection handler of the server
SessionRaisesStopsServer(g) ==
    /\ g \in DOMAIN games
    /\ games[g].pc = "raised"
    /\ games[g].runner \in Conns
    /\ handler[games[g].runner] = "run"
    /\ handler' = [c \in Conns |-> "raised"]
    /\ transport' = "none"
    /\ UNCHANGED <<games, round_vars, future, wire_vars, env_vars,
                   waiting_players, next_game_id, inbox>>

\* wait_until_game_complete, line 97: game.run() has raised; the exception
\* leaves wait_until_game_complete and is logged by ws_handler_impl.
SessionRaises(g) ==
    /\ g \in DOMAIN games
    /\ games[g].pc = "raised"
    /\ games[g].runner \in Conns
    /\ handler[games[g].runner] = "run"
    /\ handler' = [handler EXCEPT ![games[g].runner] = "raised"]
    /\ transport' = "none"
    /\ UNCHANGED <<games, round_vars, future, wire_vars, env_vars,
                   waiting_players, next_game_id, inbox>>

NextManager ==
    \/ \E c \in Conns : Offer(c)
    \/ \E c \in Conns : AwaitFuture(c)
    \/ \E g \in GameIds : SessionReturns(g)
    \/ \E g \in GameIds : SessionRaises(g)
    \/ Next

\* the server after GameManager.__init__, before any connection
InitManager ==
    /\ games = <<>>
    /\ \E cs \in ManagerClients : ConnectedAs({}, {}, cs)
    /\ NoManager

SpecManager == InitManager /\ [][NextManager]_vars

\* ------------------------------------------------- vocabulary of the claims
\* the players of the round whose partition is in survivors and eliminated
RoundPlayers == Range(survivors) \cup Range(eliminated)

IsAnnouncement(request, message) ==
    request.method = "announcement" /\ request.params.message = message

\* an announcement with this text was handed to p's websocket
Announced(p, message) ==
    \E k \in DOMAIN sent[p] : IsAnnouncement(sent[p][k], message)

\* the latest "answers" request handed to p's websocket
LastAnswers(p) ==
    LET ks == {k \in DOMAIN sent[p] : sent[p][k].method = "answers"}
    IN  sent[p][CHOOSE k \in ks : \A j \in ks : j <= k]

RECURSIVE SumSeq(_)
SumSeq(s) == IF s = <<>> THEN 0 ELSE Head(s) + SumSeq(Tail(s))

\* the requests of s without their ids
Payload(s) == [k \in DOMAIN s |-> <<s[k].method, s[k].params>>]

\* the last n requests handed to p's websocket, without their ids
LastPayload(p, n) == Payload(SubSeq(sent[p], Len(sent[p]) - n + 1, Len(sent[p])))

\* how many requests of this method were handed to p's websocket
NumSent(p, method) ==
    Cardinality({k \in DOMAIN sent[p] : sent[p][k].method = method})

\* how many announcements with this text were handed to p's websocket
NumAnnounced(p, message) ==
    Cardinality({k \in DOMAIN sent[p] : IsAnnouncement(sent[p][k], message)})

\* the latest "ask_question" request handed to p's websocket
LastQuestion(p) ==
    LET ks == {k \in DOMAIN sent[p] : sent[p][k].method = "ask_question"}
    IN  sent[p][CHOOSE k \in ks : \A j \in ks : j <= k]

\* p's websocket was handed one more request in this step, and it is a
\* results message or a survival or elimination announcement
ResultsOrVerdictSent(p) ==
    /\ sent'[p] # sent[p]
    /\ LET request == sent'[p][Len(sent'[p])]
       IN  \/ request.method = "answers"
           \/ IsAnnouncement(request, CORRECT_ANSWER)
           \/ IsAnnouncement(request, YOU_ARE_ELIMINATED)

\* ------------------------------------------------------------------ claims

\* C1: over any sequence of rounds and on every exit path of run()
\* (elimination, winner, abort) no player's completion future has set_result
\* called on it more than once.
C1_SetResultAtMostOnce == \A p \in P : future[p] <= 1

\* a player eliminated in round 1 and another one signalled by the abort of
\* round 2
C1_Witness ==
    /\ pc = "raised"
    /\ current_round = 2
    /\ \E p, q \in Range(session_players) :
           /\ Announced(p, YOU_ARE_ELIMINATED) /\ future[p] = 1
           /\ Announced(q, NETWORK_ERROR_OCCURRED) /\ future[q] = 1

\* C2: whenever run() has finished, by returning or by raising, every player
\* the session was constructed with has had its completion future set.
C2_AllSignalledWhenRunFinishes ==
    pc \in {"returned", "raised"} =>
        \A p \in Range(session_players) : future[p] >= 1

\* run() raised in round 2 of a three-player session that had eliminated
\* one player in round 1
C2_Witness ==
    /\ pc = "raised"
    /\ Len(session_players) = 3
    /\ \E p \in P : Announced(p, YOU_ARE_ELIMINATED)
    /\ \A p \in P : future[p] = 1

\* C3: in every round a player is a survivor iff the answer collected for it
\* equals the correct choice, every other player (wrong, invalid or absent
\* answer) is eliminated, the two lists are disjoint and together as long as
\* the player list.  The partition is right whenever the round gets to use
\* it; the round whose answers hold a JSON array or object ends in the
\* TypeError of the Counter (see C5) and eliminates nobody.
C3_Partition ==
    /\ [](pc \in {"answers", "verdict"} =>
            /\ \A p \in Range(players) :
                   /\ p \in Range(survivors) <=> answer[p] = question.answer
                   /\ p \in Range(eliminated) <=> answer[p] # question.answer
            /\ Range(survivors) \cap Range(eliminated) = {}
            /\ Len(survivors) + Len(eliminated) = Len(players))
    /\ [][(pc = "ask" /\ pc' # "ask") =>
            \A p \in Range(players) :
                /\ p \in Range(survivors') <=> answer[p] = question.answer
                /\ p \in Range(eliminated') <=> answer[p] # question.answer]_vars

\* C4, as stated: the values of the tally that is broadcast sum to the number
\* of players at the start of the round, also when a player gave no answer
\* or an answer that is no choice.
C4_TallySumsToPlayers ==
    pc = "verdict" =>
        \A p \in Range(players) :
            SumSeq(LastAnswers(p).params.choice_counts) = Len(players)

\* C4, amended: the values of the broadcast choice_counts sum to the number
\* of players of the round whose collected answer is one of the choices;
\* an absent answer and an answer that is no choice are in no entry.
C4_TallySumsToValidAnswers ==
    pc = "verdict" =>
        \A p \in Range(players) :
            SumSeq(LastAnswers(p).params.choice_counts) =
                Cardinality({q \in Range(players) :
                                answer[q] \in Range(question.choices)})

\* a round of three players in which the broadcast counts sum to 1
C4_Witness ==
    /\ pc = "verdict"
    /\ Len(players) = 3
    /\ \E p \in Range(players) : answer[p] = None
    /\ \E p \in Range(players) : answer[p] = "X"
    /\ \A p \in Range(players) : SumSeq(LastAnswers(p).params.choice_counts) = 1

\* C5: the broadcast choice_counts has one entry per choice, in choice
\* order, entry i being the number of players of the round whose answer is
\* exactly choices[i]; an answer that matches no choice (absent included) is
\* in no entry, does not make the tally raise, and its player is eliminated.
\* The counts that are broadcast are right; the tally raises on an answer
\* that is a JSON array or object (TypeError: unhashable type, line 227).
C5_ChoiceCounts ==
    /\ [](pc = "verdict" =>
            /\ \A p \in Range(players) :
                   LET params == LastAnswers(p).params
                   IN  /\ params.choices = question.choices
                       /\ Len(params.choice_counts) = Len(question.choices)
                       /\ \A i \in 1..Len(question.choices) :
                              params.choice_counts[i] =
                                  Cardinality({q \in Range(players) :
                                                  answer[q] = question.choices[i]})
            /\ \A q \in Range(players) :
                   answer[q] \notin Range(question.choices) => q \in Range(eliminated))
    /\ [][(pc = "ask" /\ pc' # "ask") =>
            /\ pc' = "answers"
            /\ result' = result
            /\ Len(choice_counts') = Len(question.choices)]_vars

\* C6: when a round leaves exactly one survivor, that survivor and no other
\* player is sent the winner announcement, its future is set, every player
\* eliminated in the round has its future set, the player list becomes
\* empty, execute_next_round returns False and no further round is executed.
C6_OneSurvivorWins ==
    /\ [][(pc = "notify" /\ Len(players) = 1) =>
            LET w == players[1]
            IN  /\ players = survivors
                /\ sent'[w] = Append(sent[w],
                       Request(next_json_rcp_request_id[w], "announcement",
                               AnnouncementParams(YOU_ARE_THE_WINNER)))
                /\ \A p \in P \ {w} :
                       sent'[p] = sent[p] /\ ~Announced(p, YOU_ARE_THE_WINNER)
                /\ UNCHANGED <<future, players>>
                /\ pc' = "winner"]_vars
    /\ [][pc = "winner" =>
            LET w == players[1]
            IN  /\ Len(players) = 1
                /\ IsAnnouncement(sent[w][Len(sent[w])], YOU_ARE_THE_WINNER)
                /\ sent' = sent
                /\ future[w] = 0 /\ future'[w] = 1
                /\ \A e \in Range(eliminated) : future[e] = 1 /\ future'[e] = 1
                /\ players' = <<>>
                /\ result' = "False"
                /\ pc' = "returned"]_vars
    /\ [][result = "False" => current_round' = current_round]_vars

\* scenario A: two players, one correct and one wrong, the game is over
\* after round 1
C6_Witness ==
    /\ pc = "returned"
    /\ current_round = 1
    /\ Len(session_players) = 2
    /\ Len(survivors) = 1 /\ Len(eliminated) = 1
    /\ Announced(survivors[1], YOU_ARE_THE_WINNER)
    /\ future[survivors[1]] = 1 /\ future[eliminated[1]] = 1

\* C7: when a round leaves no survivor, nobody is sent a winner
\* announcement, every player of the round has its future set, the player
\* list is empty, execute_next_round returns False and run() returns without
\* taking the abort path.
C7_NoSurvivorNoWinner ==
    /\ [](pc = "notify" /\ players = <<>> =>
            /\ \A p \in RoundPlayers : future[p] = 1
            /\ \A p \in P : /\ ~Announced(p, YOU_ARE_THE_WINNER)
                            /\ ~Announced(p, NETWORK_ERROR_OCCURRED))
    /\ [][(pc = "notify" /\ players = <<>>) =>
            /\ UNCHANGED <<sent, future, players>>
            /\ result' = "False"
            /\ pc' = "returned"]_vars

\* both players of round 2 wrong after a first round that eliminated nobody
C7_Witness ==
    /\ pc = "returned"
    /\ current_round = 2
    /\ players = <<>> /\ survivors = <<>> /\ Len(eliminated) = 2
    /\ \A p \in Range(eliminated) : future[p] = 1 /\ Announced(p, CORRECT_ANSWER)

\* C8: when a round leaves two or more survivors, execute_next_round returns
\* True, exactly the survivors remain as the player list, no survivor's
\* future is set, no winner announcement is sent, and run() executes another
\* round with that set.
C8_SurvivorsPlayOn ==
    /\ [](pc = "notify" /\ Len(players) >= 2 =>
            /\ players = survivors
            /\ Range(players) = {p \in RoundPlayers : answer[p] = question.answer}
            /\ \A p \in Range(players) : future[p] = 0
            /\ \A p \in P : ~Announced(p, YOU_ARE_THE_WINNER))
    /\ [][(pc = "notify" /\ Len(players) >= 2) =>
            /\ UNCHANGED <<sent, future, players>>
            /\ result' = "True"
            /\ pc' = "run"]_vars
    /\ [][(pc = "run" /\ result = "True") =>
            /\ current_round' = current_round + 1
            /\ players' = survivors
            /\ pc' = "fetch"]_vars
    /\ [][(pc = "fetch" /\ pc' = "ask" /\ current_round > 1) =>
            /\ players' = survivors
            /\ {p \in P : task'[p] = "announce"} = Range(survivors)]_vars

\* scenario E: three players, two correct and one wrong, round 2 is under
\* way with the two survivors
C8_Witness ==
    /\ pc = "ask"
    /\ current_round = 2
    /\ Len(session_players) = 3
    /\ Len(players) = 2 /\ players = survivors /\ Len(eliminated) = 1
    /\ future[eliminated[1]] = 1
    /\ \A p \in Range(players) : future[p] = 0 /\ task[p] # "none"

\* C9: a player whose answer does not arrive within the round timeout gets
\* the absent answer and is treated exactly like a player with a wrong
\* answer: it is eliminated, is sent the results and then the elimination
\* announcement, has its future set, and is in no choice's count.  In
\* every round that gets past its tally the player that timed out is
\* treated as the one with a wrong choice is; when the tally raises on
\* another player's answer (see C5) it is not eliminated and is sent no
\* results.
C9_TimeoutIsWrongAnswer ==
    /\ [](\A p \in timed_out :
            /\ answer[p] = None
            /\ pc \in {"answers", "verdict", "notify"} =>
                   /\ p \in Range(eliminated)
                   /\ \A i \in 1..Len(question.choices) :
                          choice_counts[i] =
                              Cardinality({q \in RoundPlayers \ timed_out :
                                              answer[q] = question.choices[i]})
            /\ pc = "notify" =>
                   /\ future[p] = 1
                   /\ LastPayload(p, 2) =
                          << <<"answers", AnswersParams(question, choice_counts)>>,
                             <<"announcement", AnnouncementParams(YOU_ARE_ELIMINATED)>> >>
                   /\ \A q \in RoundPlayers :
                          answer[q] \in Range(question.choices) \ {question.answer} =>
                              /\ q \in Range(eliminated)
                              /\ future[q] = future[p]
                              /\ LastPayload(q, 2) = LastPayload(p, 2))
    /\ [][(pc = "ask" /\ pc' # "ask") =>
            \A p \in timed_out : p \in Range(eliminated') /\ p \in pending']_vars

\* C10: an exception raised for one player during that player's round
\* interaction (round-start announcement, question, answer) is absorbed: that
\* player alone gets the absent answer, the round goes on for the others,
\* and the session enters the abort path only when the question fetch fails.
\* The exceptions of the websocket calls are absorbed; the session also
\* enters the abort path from the tally of the answers (see C5).
C10_InteractionErrorAbsorbed ==
    /\ [][(pc = "ask" /\ faults' # faults) =>
            /\ pc' = "ask"
            /\ \E p \in Range(players) :
                   /\ task[p] # "done" /\ task'[p] = "done"
                   /\ answer'[p] = None
                   /\ \A q \in P \ {p} :
                          task'[q] = task[q] /\ answer'[q] = answer[q]]_vars
    /\ [][pc = "ask" => pc' \in {"ask", "answers"}]_vars
    /\ [][(pc' = "abort" /\ pc # "abort") =>
            pc = "fetch" /\ question' = question /\ sent' = sent]_vars

\* C11: when the question fetch fails in any round, every player in the
\* player list at that moment is sent the network-error announcement and has
\* its future set, and the list is emptied; a player eliminated in an earlier
\* round gets neither the announcement nor a set_result.
C11_AbortReachesCurrentPlayers ==
    /\ [](pc = "abort" =>
            /\ pending \subseteq Range(players)
            /\ \A p \in P :
                   NumAnnounced(p, NETWORK_ERROR_OCCURRED) =
                       IF p \in Range(players) \ pending THEN 1 ELSE 0)
    /\ [][(pc = "abort" /\ pc' # "abort") =>
            /\ players' = <<>>
            /\ \A p \in Range(players) :
                   /\ NumAnnounced(p, NETWORK_ERROR_OCCURRED) = 1
                   /\ future[p] = 0 /\ future'[p] = 1
            /\ \A p \in P \ Range(players) :
                   /\ ~Announced(p, NETWORK_ERROR_OCCURRED)
                   /\ future'[p] = future[p]]_vars
    /\ [](pc = "raised" =>
            /\ players = <<>>
            /\ \A p \in Range(session_players) :
                   /\ future[p] = 1
                   /\ Announced(p, NETWORK_ERROR_OCCURRED)
                          # Announced(p, YOU_ARE_ELIMINATED))

\* scenario D: three players, one eliminated in round 1, the fetch of round 2
\* fails with two players in the list
C11_Witness ==
    /\ pc = "raised"
    /\ current_round = 2
    /\ Len(session_players) = 3
    /\ players = <<>>
    /\ \E e \in P :
           /\ Announced(e, YOU_ARE_ELIMINATED)
           /\ ~Announced(e, NETWORK_ERROR_OCCURRED)
           /\ \A p \in P \ {e} :
                  /\ LastPayload(p, 1) =
                         << <<"announcement", AnnouncementParams(NETWORK_ERROR_OCCURRED)>> >>
                  /\ future[p] = 1

\* C12: when execute_next_round raises, run() performs the abort cleanup
\* exactly once, executes no further round and then raises instead of
\* returning; when no round raises, abort_game is never invoked.
C12_AbortOnceThenRaise ==
    /\ [][(pc' = "abort" /\ pc # "abort") =>
            /\ result' = "raised"
            /\ pending' = Range(players)]_vars
    /\ [][pc = "abort" =>
            /\ pc' \in {"abort", "raised"}
            /\ current_round' = current_round
            /\ result' = "raised"]_vars
    /\ [][pc = "raised" => pc' = "raised" /\ UNCHANGED vars]_vars
    /\ [](pc = "raised" =>
            /\ result = "raised"
            /\ \A p \in P : NumAnnounced(p, NETWORK_ERROR_OCCURRED) <= 1)
    /\ [](pc \notin {"abort", "raised"} =>
            /\ result # "raised"
            /\ \A p \in P : ~Announced(p, NETWORK_ERROR_OCCURRED))

\* run() has raised after the fetch of round 1 failed for two players, each
\* of which got the one network-error announcement
C12_Witness ==
    /\ pc = "raised"
    /\ result = "raised"
    /\ current_round = 1
    /\ Len(session_players) = 2
    /\ \A p \in Range(session_players) :
           /\ Payload(sent[p]) =
                  << <<"announcement", AnnouncementParams(NETWORK_ERROR_OCCURRED)>> >>
           /\ future[p] = 1

\* C13: within a round no results message and no survival or elimination
\* announcement is sent and no future is set until the answer wait of every
\* player of the round is resolved, by an answer, an error or a timeout.
C13_Barrier ==
    /\ [](pc = "ask" =>
            \A p \in Range(players) :
                /\ future[p] = 0
                /\ NumSent(p, "answers") = current_round - 1
                /\ NumAnnounced(p, CORRECT_ANSWER) = current_round - 1
                /\ NumAnnounced(p, YOU_ARE_ELIMINATED) = 0)
    /\ [][(pc = "ask" /\ \E p \in Range(players) : task[p] # "done") =>
            /\ pc' = "ask"
            /\ future' = future
            /\ \A q \in P : ~ResultsOrVerdictSent(q)]_vars
    /\ [][(\E q \in P : ResultsOrVerdictSent(q) \/ future'[q] # future[q]) =>
            pc \in {"answers", "verdict", "notify", "winner", "abort"}]_vars

\* round 1 of three players: one has answered, the wait of another ended in
\* an exception, the third is still awaited, and nobody has been sent results
C13_Witness ==
    /\ pc = "ask"
    /\ current_round = 1
    /\ faults = 1
    /\ \E p, q, r \in Range(players) :
           /\ task[p] = "done" /\ answer[p] = question.answer
           /\ task[q] = "done" /\ answer[q] = None /\ q \notin timed_out
           /\ NumSent(q, "ask_question") = 1
           /\ task[r] = "recv"
    /\ \A p \in P : NumSent(p, "answers") = 0 /\ future[p] = 0

\* C14: within a round every player has been sent the question before any
\* player's answer is compared with the correct choice or counted, whatever
\* the interleaving of the per-player tasks.
C14_QuestionBeforeProcessing ==
    /\ [][(pc = "ask" /\ pc' # "ask") =>
            /\ sent' = sent
            /\ \A p \in Range(players) :
                   /\ NumSent(p, "ask_question") = current_round
                   /\ LastQuestion(p).params = QuestionParams(question)]_vars
    /\ [](pc \in {"answers", "verdict", "notify"} =>
            \A p \in RoundPlayers :
                /\ NumSent(p, "ask_question") = current_round
                /\ LastQuestion(p).params = QuestionParams(question))

\* round 2 of two players has been tallied; each was sent two questions
C14_Witness ==
    /\ pc = "answers"
    /\ current_round = 2
    /\ Len(players) = 2
    /\ \A p \in Range(players) :
           /\ NumSent(p, "ask_question") = 2
           /\ LastQuestion(p).params = QuestionParams(question)
    /\ \E p \in Range(players) : answer[p] = question.answer

\* C16: after the answers of a round are collected every player that started
\* the round, eliminated ones included, is sent the results with the counts
\* and the whole question, correct choice included; only after all results
\* are sent each player gets its survival or its elimination announcement,
\* exactly one of the two.  The order holds in every round that sends its
\* results; the round whose tally raises (see C5) sends no results at all.
C16_ResultsThenVerdict ==
    /\ [][(pc = "ask" /\ pc' # "ask") =>
            pc' = "answers" /\ pending' = Range(players)]_vars
    /\ [](pc = "verdict" =>
            \A p \in Range(players) :
                /\ NumSent(p, "answers") = current_round
                /\ LastAnswers(p).params = AnswersParams(question, choice_counts)
                /\ LastAnswers(p).params.answer = question.answer
                /\ LastAnswers(p).params.choices = question.choices)
    /\ [][\A p \in P :
            (/\ sent'[p] # sent[p]
             /\ \/ IsAnnouncement(sent'[p][Len(sent'[p])], CORRECT_ANSWER)
                \/ IsAnnouncement(sent'[p][Len(sent'[p])], YOU_ARE_ELIMINATED)) =>
                /\ pc = "verdict"
                /\ \A q \in Range(players) : NumSent(q, "answers") = current_round]_vars
    /\ [](pc = "notify" =>
            \A p \in RoundPlayers :
                /\ LastPayload(p, 2) =
                       << <<"answers", AnswersParams(question, choice_counts)>>,
                          <<"announcement",
                            AnnouncementParams(IF answer[p] = question.answer
                                               THEN CORRECT_ANSWER
                                               ELSE YOU_ARE_ELIMINATED)>> >>
                /\ NumAnnounced(p, CORRECT_ANSWER) + NumAnnounced(p, YOU_ARE_ELIMINATED)
                       = current_round)

\* C15: in a round, a player whose send does not complete or whose answer
\* never arrives changes the answer of no other player, and once every
\* player's interaction has gone as far as it ever will (resolved, or stuck in
\* a send) the round can take its tally step.
C15_SlowPlayerDoesNotBlock ==
    /\ [][(pc = "ask" /\ pc' = "ask") =>
            \E p \in Range(players) :
                \A q \in P \ {p} : answer'[q] = answer[q] /\ task'[q] = task[q]]_vars
    /\ [](pc = "ask" /\ (\A p \in Range(players) : task[p] \in {"done", "stalled"})
            => ENABLED TallyAnswers(1))

\* C17: a round executed on an empty player list returns at once with empty
\* survivors and eliminated, does not fetch a question and does not raise.
C17_EmptyRoundReturnsAtOnce ==
    [][(pc = "run" /\ players = <<>>) =>
            /\ question' = question
            /\ survivors' = <<>> /\ eliminated' = <<>>
            /\ sent' = sent
            /\ result' = "False"
            /\ pc' = "returned"]_vars

\* C18, as stated: while a round is executed the player list is not changed
\* and no future is set.
C18_RoundLeavesSessionUnchanged ==
    [][(pc \in {"fetch", "ask", "answers", "verdict", "notify", "winner"}) =>
            (players' = players /\ future' = future)]_vars

\* C18, amended: execute_next_round itself replaces the player list by the
\* survivors and sets the futures of the players it eliminated (and of the
\* winner, which it removes); outside execute_next_round the list and the
\* futures change only in abort_game.
C18_RoundUpdatesSession ==
    /\ [][(pc = "verdict" /\ pc' = "notify") =>
            /\ players' = survivors
            /\ \A p \in P :
                   future'[p] = IF p \in Range(eliminated) THEN future[p] + 1
                                ELSE future[p]]_vars
    /\ [][pc = "winner" =>
            /\ Len(players) = 1
            /\ players' = <<>>
            /\ future'[players[1]] = future[players[1]] + 1]_vars
    /\ [][(players' # players \/ future' # future) =>
            pc \in {"verdict", "winner", "abort"}]_vars
    /\ [][(pc \in {"run", "returned", "raised"}) =>
            (players' = players /\ future' = future)]_vars

\* round 1 of three players is not over (nothing was returned yet) and the
\* list already holds the two survivors, the future of the third is set
C18_Witness ==
    /\ pc = "notify"
    /\ result = "none"
    /\ Len(session_players) = 3
    /\ Len(players) = 2 /\ players = survivors
    /\ Len(eliminated) = 1 /\ future[eliminated[1]] = 1

\* C19, as stated: the player list only shrinks, a removed player never comes
\* back, and its length decreases in a round only if the round eliminated at
\* least one player (it stays when all answer correctly and two or more
\* remain).
C19_ShrinksOnlyByElimination ==
    /\ [][Range(players') \subseteq Range(players)]_vars
    /\ [][(pc \in {"fetch", "ask", "answers", "verdict", "notify", "winner"}
              /\ Len(players') < Len(players)) => eliminated # <<>>]_vars
    /\ [][(pc \in {"verdict", "notify"} /\ eliminated = <<>> /\ Len(players) >= 2) =>
            players' = players]_vars

\* C19, amended: the length also decreases, without an elimination, when the
\* single player left is declared the winner and removed, and when
\* abort_game clears the list.
C19_PlayerSetShrinks ==
    /\ [][Range(players') \subseteq Range(players)]_vars
    /\ [][Len(players') < Len(players) =>
            \/ pc = "verdict" /\ eliminated # <<>> /\ players' = survivors
            \/ /\ pc = "winner" /\ Len(players) = 1 /\ players' = <<>>
               /\ IsAnnouncement(sent[players[1]][Len(sent[players[1]])],
                                 YOU_ARE_THE_WINNER)
            \/ pc = "abort" /\ players' = <<>>]_vars
    /\ [][(pc \in {"verdict", "notify"} /\ eliminated = <<>> /\ Len(players) >= 2) =>
            players' = players]_vars

\* scenario B: three players all correct in round 1, the list is unchanged;
\* round 2 eliminates one of them and the list holds the other two
C19_Witness ==
    /\ pc = "notify"
    /\ current_round = 2
    /\ Len(session_players) = 3
    /\ \A p \in Range(session_players) : NumAnnounced(p, CORRECT_ANSWER) >= 1
    /\ Len(eliminated) = 1
    /\ Len(players) = 2 /\ Range(players) = Range(session_players) \ Range(eliminated)

\* C20: a player offered to the manager is appended to the waiting list; if
\* the list then holds at least CONFIG_PLAYERS_PER_GAME players, exactly that
\* many, the oldest first, become the players of one new session that is
\* run, and the list no longer holds them; otherwise no session is created
\* and the offered player is sent the waiting announcement.
C20_OfferFormsSessionAtQuorum ==
    /\ [][\A c \in Conns : (handler[c] = "idle" /\ handler'[c] # "idle") =>
            LET waiting == Append(waiting_players, c)
                n == CONFIG_PLAYERS_PER_GAME
            IN  IF Len(waiting) >= n
                THEN /\ Len(games') = Len(games) + 1
                     /\ SubSeq(games', 1, Len(games)) = games
                     /\ games'[Len(games')].players = SubSeq(waiting, 1, n)
                     /\ games'[Len(games')].session_players = SubSeq(waiting, 1, n)
                     /\ games'[Len(games')].pc = "run"
                     /\ games'[Len(games')].runner = c
                     /\ handler'[c] = "run"
                     /\ waiting_players' = SubSeq(waiting, n + 1, Len(waiting))
                     /\ Range(waiting_players')
                            \cap Range(games'[Len(games')].players) = {}
                     /\ sent' = sent
                ELSE /\ games' = games
                     /\ waiting_players' = waiting
                     /\ handler'[c] = "wait"
                     /\ sent' = [sent EXCEPT ![c] = Append(@,
                            Request(next_json_rcp_request_id[c], "announcement",
                                    AnnouncementParams(WAITING_FOR_PLAYERS)))]]_vars
    /\ [](\A c \in Conns :
            handler[c] = "run" => ~Announced(c, WAITING_FOR_PLAYERS))

\* four connections: the first session holds the two oldest, the second
\* the next two in their order; the first of each pair was told to wait, and
\* the list is empty again
C20_Witness ==
    /\ Len(games) = 2
    /\ \E a, b, c, d \in Conns :
           /\ games[1].session_players = <<a, b>> /\ games[1].runner = b
           /\ games[2].session_players = <<c, d>> /\ games[2].runner = d
           /\ games[2].pc = "run"
           /\ Announced(a, WAITING_FOR_PLAYERS) /\ ~Announced(b, WAITING_FOR_PLAYERS)
           /\ Announced(c, WAITING_FOR_PLAYERS) /\ ~Announced(d, WAITING_FOR_PLAYERS)
    /\ waiting_players = <<>>

\* C21: under any interleaving of the connection handlers each offered
\* player is in at most one session, each batch of waiting players makes
\* exactly one session, and every session is created with exactly
\* CONFIG_PLAYERS_PER_GAME players.
C21_OnePlayerOneSession ==
    /\ [](\A g \in DOMAIN games :
            /\ Len(games[g].session_players) = CONFIG_PLAYERS_PER_GAME
            /\ Cardinality(Range(games[g].session_players)) = CONFIG_PLAYERS_PER_GAME
            /\ Range(games[g].session_players) \cap Range(waiting_players) = {}
            /\ \A h \in DOMAIN games :
                   g # h => Range(games[g].session_players)
                                \cap Range(games[h].session_players) = {})
    /\ [](Len(waiting_players) < CONFIG_PLAYERS_PER_GAME)
    /\ [][/\ Len(games') <= Len(games) + 1
          /\ Len(games') = Len(games) + 1 =>
                 /\ Len(waiting_players) + 1 = CONFIG_PLAYERS_PER_GAME
                 /\ Range(games'[Len(games')].session_players) \ Range(waiting_players)
                        = {c \in Conns : handler[c] = "idle" /\ handler'[c] = "run"}
                 /\ waiting_players' = <<>>]_vars

\* a session is in its first round, its first player still a waiter of the
\* manager, and a third connection was offered after the game started
C21_Witness ==
    /\ Len(games) = 1
    /\ Len(waiting_players) = 1
    /\ \E a, b, c \in Conns :
           /\ games[1].session_players = <<a, b>>
           /\ games[1].pc = "ask"
           /\ handler[a] = "wait" /\ handler[b] = "run"
           /\ waiting_players = <<c>> /\ handler[c] = "wait"

\* C22: the ids the manager gives its sessions strictly increase in creation
\* order, so no two sessions share an id, sessions that run at the same time
\* included.
C22_GameIdsIncrease ==
    /\ [](\A g, h \in DOMAIN games :
            /\ g < h => games[g].game_id < games[h].game_id
            /\ g # h => games[g].game_id # games[h].game_id
            /\ games[g].game_id < next_game_id)
    /\ [][/\ next_game_id' >= next_game_id
          /\ Len(games') > Len(games) =>
                 /\ games'[Len(games')].game_id = next_game_id
                 /\ next_game_id' > next_game_id]_vars

\* two sessions in their rounds at the same time, with the ids 1 and 2
C22_Witness ==
    /\ Len(games) = 2
    /\ games[1].pc = "ask" /\ games[2].pc = "verdict"
    /\ games[1].players # <<>> /\ games[2].players # <<>>
    /\ games[1].game_id = 1 /\ games[2].game_id = 2
    /\ next_game_id = 3

\* C23: a failure of the question source in one session aborts that session
\* only: the exception run() re-raises ends in the handler of the connection
\* that ran the game and does not stop the server; every other session and
\* the waiting list are untouched (players, state, futures), and the server
\* goes on accepting connections.
C23_AbortStaysInSession ==
    /\ [][\A g \in DOMAIN games :
            (games[g].pc \in {"fetch", "abort"}
                /\ games'[g].pc \in {"abort", "raised"} /\ games'[g] # games[g]) =>
                /\ handler' = handler
                /\ \A c \in Peers \ Range(games[g].session_players) :
                       future'[c] = future[c] /\ sent'[c] = sent[c]
                /\ Len(games') = Len(games)
                /\ \A h \in DOMAIN games \ {g} : games'[h] = games[h]
                /\ waiting_players' = waiting_players
                /\ next_game_id' = next_game_id
                /\ games'[g].pc = "raised" =>
                       \A c \in Range(games[g].session_players) : future'[c] = 1]_vars
    /\ [][\A g \in DOMAIN games :
            (games[g].pc = "raised" /\ handler'[games[g].runner] # handler[games[g].runner]) =>
                /\ handler'[games[g].runner] = "raised"
                /\ \A c \in Conns \ {games[g].runner} : handler'[c] = handler[c]
                /\ games' = games
                /\ future' = future
                /\ waiting_players' = waiting_players]_vars
    /\ [](\A c \in Conns :
            (/\ handler[c] = "idle"
             /\ clients[c] # "absent"
             /\ \A d \in Conns : d < c => handler[d] # "idle"
             /\ \E g \in DOMAIN games : games[g].pc = "raised")
                => ENABLED Offer(c))

\* the first session raised, and its handler has ended, while a second one
\* is in a round with both its players, whose futures are unset
C23_Witness ==
    /\ Len(games) = 2
    /\ games[1].pc = "raised"
    /\ handler[games[1].runner] = "raised"
    /\ games[2].pc = "ask"
    /\ games[2].players = games[2].session_players
    /\ \A c \in Range(games[2].session_players) : future[c] = 0
    /\ \A c \in Range(games[1].session_players) : future[c] = 1

\* C24: the ask_question message never carries the correct choice; in every
\* round a player is sent the correct choice only in the results message,
\* and that message is sent after the answers of every player of the round
\* have been collected.
C24_AnswerOnlyInResults ==
    /\ [](\A p \in P : \A k \in DOMAIN sent[p] :
            /\ sent[p][k].method = "ask_question" =>
                   /\ sent[p][k].params.answer = None
                   /\ Len(sent[p][k].params.choices) = 3
            /\ sent[p][k].params.answer # None => sent[p][k].method = "answers")
    /\ [][\A p \in P :
            (sent'[p] # sent[p] /\ sent'[p][Len(sent'[p])].params.answer # None) =>
                /\ pc = "answers"
                /\ p \in Range(players)
                /\ sent'[p][Len(sent'[p])].params.answer = question.answer
                /\ \A q \in Range(players) : task[q] = "none"
                /\ answers = [i \in 1..Len(players) |-> answer[players[i]]]
                /\ NumSent(p, "ask_question") <= current_round]_vars

\* second round: a player that was sent the results of the first round has
\* the question of the second, with its three choices and without the
\* answer, as its latest message
C24_Witness ==
    /\ pc = "ask"
    /\ current_round = 2
    /\ \E p \in Range(players) :
           /\ NumSent(p, "answers") = 1
           /\ LastQuestion(p).params = QuestionParams(question)
           /\ sent[p][Len(sent[p])].method = "ask_question"
           /\ question.answer \in Range(sent[p][Len(sent[p])].params.choices)

\* C25: the ids of the requests of one connection start at 1 and strictly
\* increase in the order the requests are sent, across the waiting
\* announcement, the round messages, the results and the winner or abort
\* announcement; no two requests of one connection share an id.
C25_RequestIdsIncrease ==
    \A p \in P :
        /\ sent[p] # <<>> => sent[p][1].id = 1
        /\ \A j, k \in DOMAIN sent[p] :
               /\ j < k => sent[p][j].id < sent[p][k].id
               /\ j # k => sent[p][j].id # sent[p][k].id
        /\ \A k \in DOMAIN sent[p] : sent[p][k].id < next_json_rcp_request_id[p]

\* a player that waited for the quorum and won the first round has the ids
\* 1 to 6 on its six requests
C25_Witness ==
    /\ \E p \in P :
           /\ Payload(sent[p]) =
                  << <<"announcement", AnnouncementParams(WAITING_FOR_PLAYERS)>>,
                     <<"announcement", RoundStartingParams(1)>>,
                     <<"ask_question", QuestionParams(question)>>,
                     <<"answers", AnswersParams(question, choice_counts)>>,
                     <<"announcement", AnnouncementParams(CORRECT_ANSWER)>>,
                     <<"announcement", AnnouncementParams(YOU_ARE_THE_WINNER)>> >>
           /\ [k \in DOMAIN sent[p] |-> sent[p][k].id] = <<1, 2, 3, 4, 5, 6>>
           /\ pc = "returned"

\* C26: a failure of the transport while a question, an announcement or a
\* results message is sent is swallowed by the player object: the send
\* returns normally, its caller goes on with its next statement, and the
\* failure reaches neither the round nor the session (no absent answer, no
\* failed gather, no abort).
C26_SendFailureSwallowed ==
    [][(transport' = "closed" /\ sent' # sent) =>
          /\ \A p \in P :
                 /\ (pc = "ask" /\ sent'[p] # sent[p]) =>
                        /\ task[p] = "announce" => task'[p] = "question"
                        /\ task[p] = "question" => task'[p] = "recv"
                 /\ sent'[p] # sent[p] =>
                        /\ Len(sent'[p]) = Len(sent[p]) + 1
                        /\ next_json_rcp_request_id'[p] = next_json_rcp_request_id[p] + 1
          /\ answer' = answer
          /\ gather_raised' = gather_raised
          /\ faults' = faults
          /\ result' = "raised" => result = "raised"
          /\ pc # "abort" => pc' # "abort"
          /\ pc \in {"ask", "answers", "verdict", "abort"} => pc' = pc
          /\ pc = "notify" =>
                 /\ pc' = "winner"
                 /\ UNCHANGED <<players, future>>]_vars

\* the connection was closed when the question was sent, and the coroutine
\* of that player is at recv_answer; it was closed for the round-start
\* announcement as well
C26_Witness ==
    /\ transport = "closed"
    /\ pc = "ask"
    /\ \E p \in Range(players) :
           /\ task[p] = "recv"
           /\ sent[p][Len(sent[p])].method = "ask_question"
           /\ answer[p] = None

\* C27: receiving the answer of a player whose connection is closed, or
\* whose message is no well-formed response, returns the absent answer and
\* does not raise; a well-formed response returns exactly its result field.
C27_RecvAnswer ==
    [][\A p \in P :
          (task[p] = "recv" /\ task'[p] = "done" /\ p \notin timed_out') =>
              /\ transport' \in ClientResults => answer'[p] = transport'
              /\ transport' \in {"closed", "malformed"} => answer'[p] = None
              /\ transport' \in ClientResults \cup {"closed", "malformed"}
              /\ \A q \in P \ {p} : answer'[q] = answer[q]
              /\ pc' = "ask"
              /\ faults' = faults
              /\ result' = result]_vars

\* the connection of one player was found closed by its recv, which gave
\* the absent answer without a timeout; another player's well-formed
\* response with a result that is no choice was returned as it is
C27_Witness ==
    /\ transport = "closed"
    /\ pc = "ask"
    /\ \E p, q \in Range(players) :
           /\ task[p] = "done" /\ answer[p] = None /\ p \notin timed_out
           /\ sent[p][Len(sent[p])].method = "ask_question"
           /\ \A r \in Range(players) \ {p} : task[r] = "done"
           /\ task[q] = "done" /\ answer[q] = "X"

\* the connections whose handler did not complete a quorum
Waiters == {c \in Conns : handler[c] # "idle" /\ \A g \in DOMAIN games : games[g].runner # c}

\* C28, as stated: the handler of a player offered before the quorum is
\* reached stays blocked, and the player stays in the waiting queue, until
\* the player's future is set; the handler returns once, and only once, the
\* future has been set.
C28_WaitsInQueueUntilFutureSet ==
    /\ [](\A c \in Waiters :
            future[c] = 0 => handler[c] = "wait" /\ c \in Range(waiting_players))
    /\ [][\A c \in Conns :
            (handler[c] # "done" /\ handler'[c] = "done") => future[c] = 1]_vars

\* C28, amended: the handler stays blocked until the player's future is
\* set and returns once it has been set; the player is in the waiting queue
\* only until a later offer completes the quorum, which moves it into the
\* new session, where it stays until the session sets its future.
C28_BlockedUntilFutureSet ==
    /\ [](\A c \in Waiters :
            future[c] = 0 =>
                /\ handler[c] = "wait"
                /\ ~ENABLED AwaitFuture(c)
                /\ c \in Range(waiting_players)
                       <=> ~\E g \in DOMAIN games : c \in Range(games[g].players))
    /\ [](\A c \in Waiters :
            (future[c] = 1 /\ handler[c] = "wait") => ENABLED AwaitFuture(c))
    /\ [][\A c \in Conns :
            /\ (handler[c] # "done" /\ handler'[c] = "done") =>
                   handler[c] = "wait" /\ future[c] = 1
            /\ handler[c] = "done" => handler'[c] = "done"
            /\ (c \in Range(waiting_players) /\ c \notin Range(waiting_players')) =>
                   /\ Len(games') = Len(games) + 1
                   /\ c \in Range(games'[Len(games')].players)
                   /\ future'[c] = 0
                   /\ handler'[c] = handler[c]]_vars

\* a player that waited is in a running session with its future unset and
\* its handler blocked, the other player of that session was eliminated,
\* and a third player is in the waiting queue
C28_Witness ==
    /\ Len(games) = 1
    /\ games[1].pc = "notify"
    /\ \E a, b, c \in Conns :
           /\ games[1].session_players = <<a, b>>
           /\ games[1].players = <<a>>
           /\ handler[a] = "wait" /\ future[a] = 0
           /\ Announced(a, WAITING_FOR_PLAYERS)
           /\ a \notin Range(waiting_players)
           /\ future[b] = 1
           /\ waiting_players = <<c>> /\ handler[c] = "wait" /\ future[c] = 0

\* C29: a round started with exactly one player is executed in full: the
\* question is fetched and sent, the answer is awaited and the results are
\* broadcast; the lone player is declared the winner only after it answered
\* that round correctly, and is eliminated without a winner announcement if
\* its answer is wrong or absent.  All of it holds of a lone player whose
\* answer the tally can count; an answer that is a JSON array or object is a
\* wrong answer after which no results are broadcast and the player is not
\* eliminated (see C5).
C29_LonePlayerRound ==
    /\ [][(Len(players) = 1 /\ pc \in {"run", "fetch"}) =>
            pc' \in {"run", "fetch", "ask", "abort"}]_vars
    /\ [](Len(players) = 1 /\ pc = "verdict" /\ players[1] \in pending =>
            LastPayload(players[1], 3) =
                << <<"announcement", RoundStartingParams(current_round)>>,
                   <<"ask_question", QuestionParams(question)>>,
                   <<"answers", AnswersParams(question, choice_counts)>> >>)
    /\ [][\A p \in P :
            (/\ sent'[p] # sent[p]
             /\ IsAnnouncement(sent'[p][Len(sent'[p])], YOU_ARE_THE_WINNER)) =>
                /\ answer[p] = question.answer
                /\ IsAnnouncement(sent[p][Len(sent[p])], CORRECT_ANSWER)]_vars
    /\ [](\A p \in P :
            (/\ session_players = <<p>>
             /\ pc = "returned"
             /\ answer[p] # question.answer) =>
                /\ eliminated = <<p>>
                /\ future[p] = 1
                /\ ~Announced(p, YOU_ARE_THE_WINNER)
                /\ IsAnnouncement(sent[p][Len(sent[p])], YOU_ARE_ELIMINATED))
    /\ [][(Len(players) = 1 /\ pc = "ask" /\ pc' # "ask") =>
            /\ pc' = "answers"
            /\ answer[players[1]] # question.answer => eliminated' = players]_vars

\* C30: the outcome of a round is a function of the ordered player list, the
\* question and the answers collected: the survivors are the players whose
\* answer is the correct choice, in list order, the eliminated the others in
\* list order, and the tally the number of answers per choice, whatever the
\* order in which the players' coroutines returned.
C30_OutcomeIsFunctionOfAnswers ==
    pc \in {"answers", "verdict"} =>
        LET Correct(p) == answer[p] = question.answer
            Wrong(p) == answer[p] # question.answer
        IN  /\ answers = [i \in 1..Len(players) |-> answer[players[i]]]
            /\ survivors = SelectSeq(players, Correct)
            /\ eliminated = SelectSeq(players, Wrong)
            /\ choice_counts =
                   [i \in 1..Len(question.choices) |->
                       Cardinality({k \in 1..Len(answers) :
                                       answers[k] = question.choices[i]})]

\* three players: the first and the last answered correctly, the second
\* did not; the survivors are the first and the last in that order
C30_Witness ==
    /\ pc = "answers"
    /\ Len(players) = 3
    /\ answers[1] = question.answer
    /\ answers[2] = "A"
    /\ answers[3] = question.answer
    /\ survivors = <<players[1], players[3]>>
    /\ eliminated = <<players[2]>>
    /\ SumSeq(choice_counts) = 3

\* the rounds announced to p by its round-start announcements, in order
RECURSIVE RoundsAnnounced(_)
RoundsAnnounced(s) ==
    IF s = <<>> THEN <<>>
    ELSE IF IsAnnouncement(Head(s), GAME_ROUND_STARTING)
         THEN <<Head(s).params.round>> \o RoundsAnnounced(Tail(s))
         ELSE RoundsAnnounced(Tail(s))

\* C31: the round number of a session starts at 0 and grows by exactly 1
\* with each executed round, so that the k-th round announces itself to the
\* players as round k.
C31_RoundNumber ==
    /\ current_round = 0
    /\ [][/\ current_round' \in {current_round, current_round + 1}
          /\ current_round' = current_round + 1 <=> pc = "run" /\ pc' # "run"
          /\ \A p \in P :
                 (/\ sent'[p] # sent[p]
                  /\ IsAnnouncement(sent'[p][Len(sent'[p])], GAME_ROUND_STARTING)) =>
                     sent'[p][Len(sent'[p])].params.round = current_round]_vars
    /\ [](\A p \in P :
            \A k \in DOMAIN RoundsAnnounced(sent[p]) :
                RoundsAnnounced(sent[p])[k] = k)
    /\ [](pc = "ask" =>
            \A p \in Range(players) :
                task[p] # "announce" =>
                    Len(RoundsAnnounced(sent[p])) = current_round)

\* the second round of a session is being played and a player of it has
\* been announced the rounds 1 and 2
C31_Witness ==
    /\ current_round = 2
    /\ pc = "ask"
    /\ \E p \in Range(players) : RoundsAnnounced(sent[p]) = <<1, 2>>

\* the kind of a request: its method, or the text of an announcement
Kind(request) ==
    IF request.method = "announcement" THEN request.params.message
    ELSE request.method

\* C32: for each player in each round the messages are sent in the order
\* round-start announcement, question, results, survival or elimination
\* announcement and, for the winner, the winner announcement as the last
\* message; the answer of a player is awaited only after its question has
\* been sent, and the last message of an eliminated player is the
\* elimination announcement.
C32_MessageOrder ==
    /\ [](\A p \in P : \A k \in DOMAIN sent[p] :
            LET this == Kind(sent[p][k])
                before == IF k = 1 THEN "nothing" ELSE Kind(sent[p][k - 1])
            IN  /\ this = GAME_ROUND_STARTING => before \in {"nothing", CORRECT_ANSWER}
                /\ this = "ask_question" =>
                       /\ before = GAME_ROUND_STARTING
                       /\ sent[p][k - 1].params.round
                              = Cardinality({j \in 1..k : sent[p][j].method = "ask_question"})
                /\ this = "answers" => before = "ask_question"
                /\ this \in {CORRECT_ANSWER, YOU_ARE_ELIMINATED} => before = "answers"
                /\ this = YOU_ARE_THE_WINNER =>
                       before = CORRECT_ANSWER /\ k = Len(sent[p])
                /\ this = YOU_ARE_ELIMINATED => k = Len(sent[p]))
    /\ [](\A p \in P :
            task[p] = "recv" =>
                /\ Kind(sent[p][Len(sent[p])]) = "ask_question"
                /\ NumSent(p, "ask_question") = current_round)
    /\ [](\A p \in P :
            (p \in Range(session_players) /\ p \notin Range(players)
             /\ pc \in {"run", "fetch", "ask", "returned"}
             /\ ~Announced(p, YOU_ARE_THE_WINNER)) =>
                Kind(sent[p][Len(sent[p])]) = YOU_ARE_ELIMINATED)

\* three players: one was eliminated in the first round and its last
\* message is the elimination announcement, one won the second round and
\* has the winner announcement after the two rounds' messages
C32_Witness ==
    /\ pc = "returned"
    /\ current_round = 2
    /\ \E p, w \in Range(session_players) :
           /\ [k \in DOMAIN sent[p] |-> Kind(sent[p][k])] =
                  <<GAME_ROUND_STARTING, "ask_question", "answers", YOU_ARE_ELIMINATED>>
           /\ [k \in DOMAIN sent[w] |-> Kind(sent[w][k])] =
                  <<GAME_ROUND_STARTING, "ask_question", "answers", CORRECT_ANSWER,
                    GAME_ROUND_STARTING, "ask_question", "answers", CORRECT_ANSWER,
                    YOU_ARE_THE_WINNER>>

\* run() is in or past abort_game and no answer made the tally raise: the
\* question fetch of the current round failed
FetchFailed ==
    /\ pc \in {"abort", "raised"}
    /\ \A p \in P : answer[p] # UNHASHABLE

\* C33: the question of a round is fetched before any message of the round
\* is sent: when the fetch fails no player is sent the round-start
\* announcement or a question of that round, and the only message a
\* remaining player is sent in the failing round is one network-error
\* announcement.
C33_FetchBeforeMessages ==
    /\ [][(pc \in {"run", "fetch"}) => sent' = sent]_vars
    /\ [][sent' # sent =>
            pc \notin {"run", "fetch"} /\ (pc = "ask" => question # NoQuestion)]_vars
    /\ [](FetchFailed =>
            \A p \in P :
                /\ \A k \in DOMAIN sent[p] : sent[p][k].params.round # current_round
                /\ NumSent(p, "ask_question") < current_round
                /\ NumSent(p, "answers") < current_round
                /\ NumAnnounced(p, NETWORK_ERROR_OCCURRED) <= 1)
    /\ [](FetchFailed /\ pc = "raised" =>
            \A p \in Range(session_players) :
                IF Announced(p, YOU_ARE_ELIMINATED)
                THEN ~Announced(p, NETWORK_ERROR_OCCURRED)
                ELSE /\ NumAnnounced(p, NETWORK_ERROR_OCCURRED) = 1
                     /\ IsAnnouncement(sent[p][Len(sent[p])], NETWORK_ERROR_OCCURRED)
                     /\ Len(sent[p]) = 4 * (current_round - 1) + 1
                     /\ Len(sent[p]) > 1 =>
                            IsAnnouncement(sent[p][Len(sent[p]) - 1], CORRECT_ANSWER))

\* the fetch of the second round failed: the two survivors of the first
\* round were sent its four messages and then the network-error
\* announcement, nothing of a second round
C33_Witness ==
    /\ FetchFailed
    /\ pc = "raised"
    /\ current_round = 2
    /\ \E p, q \in Range(session_players) :
           /\ p # q
           /\ Len(sent[p]) = 5 /\ Len(sent[q]) = 5
           /\ IsAnnouncement(sent[p][4], CORRECT_ANSWER)
           /\ IsAnnouncement(sent[p][5], NETWORK_ERROR_OCCURRED)
           /\ IsAnnouncement(sent[q][5], NETWORK_ERROR_OCCURRED)

\* C34: no message is sent to a player after its future has been set: the
\* elimination, winner and network-error announcements each precede the
\* set_result of their player, and a player eliminated in a round is not
\* contacted in a later round or by a later abort.
C34_NoMessageAfterSignal ==
    /\ [][\A p \in P : sent'[p] # sent[p] => future[p] = 0]_vars
    /\ [][\A p \in P :
            future'[p] # future[p] =>
                /\ future[p] = 0
                /\ Len(sent'[p]) > 0
                /\ Kind(sent'[p][Len(sent'[p])]) \in
                       {YOU_ARE_ELIMINATED, YOU_ARE_THE_WINNER, NETWORK_ERROR_OCCURRED}]_vars
    /\ [](\A p \in P :
            future[p] >= 1 =>
                /\ p \notin Range(players)
                /\ p \notin pending
                /\ task[p] = "none"
                /\ Kind(sent[p][Len(sent[p])]) \in
                       {YOU_ARE_ELIMINATED, YOU_ARE_THE_WINNER, NETWORK_ERROR_OCCURRED})

\* a player eliminated in the first round has its four messages of that
\* round and its future set, while the second round was aborted and the
\* two survivors were sent the network-error announcement
C34_Witness ==
    /\ pc = "raised"
    /\ current_round = 2
    /\ \E e, p, q \in Range(session_players) :
           /\ p # q
           /\ future[e] = 1 /\ Len(sent[e]) = 4
           /\ Kind(sent[e][4]) = YOU_ARE_ELIMINATED
           /\ Kind(sent[p][Len(sent[p])]) = NETWORK_ERROR_OCCURRED
           /\ Kind(sent[q][Len(sent[q])]) = NETWORK_ERROR_OCCURRED
           /\ Len(sent[p]) > 5

\* C35: every connection handler returns as soon as the future of its own
\* player is set; the handler of the player whose arrival completed the
\* quorum, which runs the session, returns once that player is eliminated
\* and is not blocked until the rounds of the remaining players are over.
\* The handlers of the players that waited do; the handler that runs the
\* session is inside game.run() until the whole game has ended.
C35_HandlerReturnsWhenSignalled ==
    /\ [](\A c \in Conns :
            (future[c] >= 1 /\ handler[c] = "wait") => ENABLED AwaitFuture(c))
    /\ [](\A g \in DOMAIN games :
            (future[games[g].runner] >= 1 /\ games[g].players # <<>>) =>
                handler[games[g].runner] \in {"wait", "done"})

\* C36: the answer recorded for a player in round N is a message the client
\* sent in response to round N's question: a message it sent before that
\* question was sent to it is never consumed as its round-N answer.
\* recv_answer takes the oldest buffered message whatever request it answers;
\* a step that takes a message off the buffer is a return of recv_answer,
\* a timeout leaves the buffer as it is.
C36_AnswerRespondsToQuestion ==
    [][\A p \in P :
          (/\ task[p] = "recv" /\ task'[p] = "done"
           /\ inbox[p] # <<>> /\ inbox'[p] = Tail(inbox[p])
           /\ p \notin timed_out') =>
              /\ Head(inbox[p]).asked = NumSent(p, "ask_question")
              /\ answer'[p] = recv_answer(Head(inbox[p]).result)]_vars

\* C37: abort_game sets the future of every remaining player and empties
\* the player list even when the network-error announcement to one of them
\* fails with an exception that send_json_rpc_request does not swallow.
\* The gather of the announcements raises, and abort_game ends there.
C37_AbortCompletesDespiteSendError ==
    [][(pc = "abort" /\ pc' = "raised") =>
          /\ players' = <<>>
          /\ \A p \in Range(players) : future'[p] >= 1]_vars

\* C38: in a session started with at least two players the player list
\* never holds exactly one player when a round starts, a lone survivor
\* having been removed as the winner, and the list is empty whenever run()
\* has returned or raised.
C38_NoLoneSurvivorAtRoundStart ==
    Len(session_players) >= 2 =>
        /\ pc = "run" => Len(players) # 1
        /\ pc \in {"returned", "raised"} => players = <<>>

\* a session of several players has returned after announcing its winner
C38_Witness ==
    /\ Len(session_players) >= 2
    /\ pc = "returned"
    /\ players = <<>>
    /\ \E p \in P : Announced(p, YOU_ARE_THE_WINNER)

\* C39: the player set of a session is fixed at its creation from a copy of
\* the waiting list: clearing the list afterwards and offers that arrive
\* while the session runs neither add players to a session nor remove any,
\* and the player sets of any two sessions are disjoint.
C39_SessionPlayersFixed ==
    /\ [][\A g \in DOMAIN games :
              /\ g \in DOMAIN games'
              /\ games'[g].session_players = games[g].session_players
              /\ Range(games'[g].players) \subseteq Range(games[g].players)]_vars
    /\ [][(waiting_players' # waiting_players) =>
              \A g \in DOMAIN games : games'[g] = games[g]]_vars
    /\ [][(Len(games') > Len(games)) =>
              /\ Len(games') = Len(games) + 1
              /\ waiting_players' = <<>>
              /\ \E c \in Conns :
                    /\ games'[Len(games')].session_players = Append(waiting_players, c)
                    /\ games'[Len(games')].players = Append(waiting_players, c)]_vars
    /\ [](\A g, h \in DOMAIN games :
              g # h => Range(games[g].session_players) \cap Range(games[h].session_players) = {})

\* the first session still has all its players while a second session has
\* been created from later arrivals
C39_Witness ==
    /\ Len(games) = 2
    /\ games[1].pc = "ask"
    /\ games[1].players = games[1].session_players
    /\ Len(games[1].session_players) = CONFIG_PLAYERS_PER_GAME
    /\ Len(games[2].session_players) = CONFIG_PLAYERS_PER_GAME
    /\ waiting_players = <<>>

====
